---- MODULE Spec2Model ----
(***************************************************************************)
(* Verification model of the FlowPOS forecasting service                   *)
(* (src/FlowPOS/services/forecasting) and of the ensemble models it loads  *)
(* (src/inventory-forecasting/src/models/ensemble.py).                     *)
(*                                                                         *)
(* These specifications share the module:                                  *)
(*   SpecBOM      GET /forecast/ingredients  (forecast_ingredients)        *)
(*   SpecForecast predict_multi_day and the models it calls                *)
(*   Spec         the request handlers on the server's event loop          *)
(*   SpecCold     POST /forecast/cold-start and the agent's estimate tool  *)
(*   SpecSafety   calculate_safety_stock (inventory/optimizer.py)          *)
(*   SpecPrep     generate_prep_recommendations (inventory/optimizer.py)   *)
(*   SpecSignals  get_all_context_signals (llm/context_signals.py), and    *)
(*                SpecSignalsLive, the same with the event loop's fairness *)
(*   SpecFeatures lag and rolling features for training and inference, and *)
(*                the predict of the model variants                        *)
(*   SpecCost     the business cost functions (models/evaluator.py)        *)
(*   SpecSql      the run_sql tool and GET /data/query (llm/tools.py)      *)
(*   SpecSplit    time_series_split of the training frame (trainer.py)     *)
(*   SpecRegistry load_trained_models and the model files it caches        *)
(*   SpecStock    the reorder fields of the ingredient forecast            *)
(*   SpecChatLive chat_with_tools of the LLM client (llm/client.py)        *)
(*                                                                         *)
(* Quantities are fixed point: "tenths" are units of 0.1, "fortieths" are  *)
(* units of 0.025 (so that the mean of two numbers with one decimal, and   *)
(* 0.85 times a whole number, are whole fortieths).  A weekday factor is a *)
(* fraction <<numerator, denominator>>.                                    *)
(***************************************************************************)
EXTENDS Integers, Sequences, FiniteSets, TLC

VARIABLES
    \* ---- forecast_ingredients (model_routes.py 332-511) ----
    bpc,                \* position of the handler
    days_ahead,         \* query parameter days_ahead
    multi_results,      \* predict_multi_day's rows: <<[item, forecast_balanced]>>
    skuType,            \* dim_skus.type per sku id
    skuItem,            \* dim_skus.item_id per sku id (0 = NULL)
    skuQuantity,        \* dim_skus.quantity per sku id, in tenths (NULL is 0.0)
    skuThreshold,       \* dim_skus.low_stock_threshold per sku id, in tenths
    bomRows,            \* dim_bill_of_materials rows, in table order
    product_demand,     \* ordered dict: <<[title, demand]>>
    ingredient_demand,  \* dict sku_id -> tenths
    ingredient_drivers, \* dict sku_id -> <<titles>>
    mapped_products,    \* set of titles
    response,           \* the handler's answer
    \* ---- predict_multi_day (model_service.py 234-397) ----
    fpc,                \* position inside predict_multi_day
    sales,              \* daily_sales_df: rows [item, place_id, date, quantity_sold]
    fmodels,            \* load_trained_models(): the keys of the registry
    shrinkPct,          \* WasteOptimizedForecaster.shrink, in percent
    rawPreds,           \* per (place, item): what the two regressors return
    rnnOut,             \* load_rnn_model() is None -> <<>>, else predict_items()
    fdays,              \* days_ahead
    latest,             \* the latest feature row per (place, item)
    balanced_preds,     \* balanced_model.predict(latest), in fortieths
    waste_preds,        \* waste_model.predict(latest) or balanced * 0.85
    lstm_preds,         \* dict item -> fortieths
    items_info,         \* per-row metadata and base predictions
    results,            \* the list predict_multi_day returns
    \* ---- the request handlers on the event loop (model_routes.py) ----
    loop,               \* the request whose handler runs on the event loop, 0 = none
    rkind,              \* per request: which endpoint, and force_retrain
    rpc,                \* per request: its position
    rfc,                \* per request: the forecaster object Depends() gave it
    inst,               \* _instances["forecaster"]: an object id, 0 = absent
    obj,                \* per DemandForecaster object: model, feature_columns, metrics
    disk,               \* the version held by demand_forecaster.joblib
    trainerModel,       \* per request: the model of its ModelTrainer().forecaster
    loaded,             \* per request: model_data read by forecaster.load()
    pklFiles,           \* the .pkl files in trained_models_dir
    models_cache,       \* model_service._models
    histRows,           \* rows per item in the daily sales tables
    snap,               \* per request: what its handler read from the forecaster
    resp,               \* per request: the HTTP answer
    \* ---- cold_start_forecast (model_routes.py 514-721) and the agent tool ----
    cpc,                \* position of the handler
    name_words,         \* the product name has a word of more than 2 letters
    category,           \* TRUE when the optional category is given
    kw_df,              \* rows of the keyword query: avg_daily in tenths, descending
    cat_df,             \* rows of the category query
    global_row,         \* avg_daily of the ALL_PRODUCTS row of the fallback query
    top_df,             \* rows of the tool's fallback query (global top products)
    cdays,              \* days_ahead
    base_dow,           \* weekday() of tomorrow, Monday = 0
    similar_df,         \* the frame the estimate is computed from
    similarity_method,
    estimated_daily,    \* tenths, as a fraction <<numerator, denominator>>
    cold_response,      \* the route's answer
    tool_result,        \* the tool's answer
    \* ---- calculate_safety_stock (inventory/optimizer.py 11-25) ----
    ss_calls,           \* the calls made so far: arguments and returned value
    \* ---- generate_prep_recommendations (inventory/optimizer.py 45-111) ----
    prep_pc,            \* position of the function
    prep_df,            \* the groups of df, in groupby order
    prep_z,             \* z_score, twentieths
    prep_lead,          \* lead_time_days
    prep_locals,        \* per group done: forecast_std, safety and cv, squared
    recommendations,    \* the rows appended so far
    \* ---- get_all_context_signals (llm/context_signals.py 527-566) ----
    sig_pc,             \* per call: position of its coroutine
    net,                \* per endpoint: how it behaves
    world,              \* what the APIs and the calendar report for the target date
    lib_installed,      \* the holidays library can be imported
    sig_cache,          \* _cache: key -> data, within the TTL
    sig_calls,          \* calls of get_all_context_signals that returned
    weather,            \* per call: its locals
    air_quality,
    holidays_data,      \* per call: holidays_data of fetch_holiday_info
    holiday_info,
    alerts,
    signals,            \* per call: what it returned
    \* ---- lag and rolling features, predict of the model variants ----
    fe_pc,              \* position in the feature pipeline
    fe_sales,           \* the daily sales rows of one (place, item)
    fe_model,           \* how the fitted regressor behaves
    train_df,           \* the training frame with its features
    infer_df,           \* what build_inference_features returned
    fe_preds,           \* per model variant: what predict returned
    \* ---- business cost of forecasts (models/evaluator.py) ----
    ev_pc,              \* position: which function was called last
    ev_df,              \* the rows: actual, predicted and item_price
    ev_mult,            \* waste_multiplier and stockout_multiplier, halves
    ev_out,             \* what the function returned
    \* ---- the SQL tool and the query endpoint (llm/tools.py, api/data_routes.py) ----
    sq_pc,              \* position: which entry point answered last
    sq_loaded,          \* loader._tables_loaded is non-empty
    sq_query,           \* the query text of the last call, a sequence of characters
    sq_result,          \* what the last call returned
    sq_executed,        \* the query texts handed to loader.query so far
    sq_calls,           \* number of calls so far
    \* ---- the chronological split of the training frame (src/models/trainer.py) ----
    ts_pc,              \* position: "start" before the call, "split" after it
    ts_df,              \* the frame: rows with a date <<year, month, day>> and their position
    ts_months,          \* train_months, val_months, test_months of the call
    ts_out,             \* the returned train, val and test frames and the branch taken
    \* ---- the model registry and the model files (models/model_service.py, scripts/train_and_save.py) ----
    reg_file,           \* balanced_model.pkl and waste_optimized_model.pkl: missing, partial or ready
    reg_script,         \* position of train_and_save.py in its two joblib.dump calls
    reg_pc,             \* position of the running load_trained_models call, "idle" between calls
    reg_runs,           \* number of finished runs of train_and_save.py
    reg_models,         \* the keys of the module's _models dict
    reg_seen,           \* the files that were loadable all through the last load_trained_models call
    reg_returned,       \* the keys of the dict the last call returned
    reg_rows,           \* predict_multi_day after the last call: "none", "empty" or "built"
    reg_calls,          \* number of calls so far
    \* ---- the stock comparison of the ingredient forecast (api/model_routes.py, section 5) ----
    stk_pc,             \* position: "start" before the row is built, "row" after
    stk_in,             \* one sku: its exploded demand, days_ahead, quantity and low_stock_threshold
    stk_row,            \* the stock fields of the sku's result row
    \* ---- the tool-calling loop of the LLM client (llm/client.py) ----
    chat_pc,            \* position in chat_with_tools: loop, post, tools, tool, retry, retry_post, returned or raised; "..._endless" at an await that never ends
    chat_round,         \* iterations of "for _ in range(MAX_TOOL_ROUNDS)" that were finished
    chat_requests,      \* requests sent with the tool definitions
    chat_retries,       \* requests sent without tools
    chat_pending,       \* tool calls of the last answer that were not executed yet
    chat_messages,      \* length of the messages list beyond the prompt
    chat_result         \* what chat_with_tools returned

bvars == <<bpc, days_ahead, multi_results, skuType, skuItem, skuQuantity,
           skuThreshold, bomRows,
           product_demand, ingredient_demand, ingredient_drivers,
           mapped_products, response>>

fvars == <<fpc, sales, fmodels, shrinkPct, rawPreds, rnnOut, fdays, latest,
           balanced_preds, waste_preds, lstm_preds, items_info, results>>

svars == <<loop, rkind, rpc, rfc, inst, obj, disk, trainerModel, loaded,
           pklFiles, models_cache, histRows, snap, resp>>

cvars == <<cpc, name_words, category, kw_df, cat_df, global_row, top_df, cdays, base_dow,
           similar_df, similarity_method, estimated_daily, cold_response,
           tool_result>>
ovars == <<ss_calls>>
pvars == <<prep_pc, prep_df, prep_z, prep_lead, prep_locals, recommendations>>
gvars == <<sig_pc, net, world, lib_installed, sig_cache, sig_calls, weather,
           air_quality, holidays_data, holiday_info, alerts, signals>>
lvars == <<fe_pc, fe_sales, fe_model, train_df, infer_df, fe_preds>>
evars == <<ev_pc, ev_df, ev_mult, ev_out>>
qvars == <<sq_pc, sq_loaded, sq_query, sq_result, sq_executed, sq_calls>>
tvars == <<ts_pc, ts_df, ts_months, ts_out>>
rvars == <<reg_file, reg_script, reg_pc, reg_runs, reg_models, reg_seen, reg_returned, reg_rows, reg_calls>>
kvars == <<stk_pc, stk_in, stk_row>>
hvars == <<chat_pc, chat_round, chat_requests, chat_retries, chat_pending, chat_messages, chat_result>>
xvars == <<cvars, ovars, pvars, gvars, lvars, evars, qvars, tvars, rvars, kvars, hvars>>
\* what the actions of one part leave alone
notC == <<bvars, fvars, svars, ovars, pvars, gvars, lvars, evars, qvars, tvars, rvars, kvars, hvars>>
notO == <<bvars, fvars, svars, cvars, pvars, gvars, lvars, evars, qvars, tvars, rvars, kvars, hvars>>
notP == <<bvars, fvars, svars, cvars, ovars, gvars, lvars, evars, qvars, tvars, rvars, kvars, hvars>>
notG == <<bvars, fvars, svars, cvars, ovars, pvars, lvars, evars, qvars, tvars, rvars, kvars, hvars>>
notL == <<bvars, fvars, svars, cvars, ovars, pvars, gvars, evars, qvars, tvars, rvars, kvars, hvars>>
notE == <<bvars, fvars, svars, cvars, ovars, pvars, gvars, lvars, qvars, tvars, rvars, kvars, hvars>>
notQ == <<bvars, fvars, svars, cvars, ovars, pvars, gvars, lvars, evars, tvars, rvars, kvars, hvars>>
notT == <<bvars, fvars, svars, cvars, ovars, pvars, gvars, lvars, evars, qvars, rvars, kvars, hvars>>
notR == <<bvars, fvars, svars, cvars, ovars, pvars, gvars, lvars, evars, qvars, tvars, kvars, hvars>>
notK == <<bvars, fvars, svars, cvars, ovars, pvars, gvars, lvars, evars, qvars, tvars, rvars, hvars>>
notH == <<bvars, fvars, svars, cvars, ovars, pvars, gvars, lvars, evars, qvars, tvars, rvars, kvars>>
vars == <<bvars, fvars, svars, xvars>>

(***************************************************************************)
(* Generic helpers                                                         *)
(***************************************************************************)
Range(s) == {s[i] : i \in 1..Len(s)}

RECURSIVE SumSet(_, _)
\* sum of f[x] over the finite set S
SumSet(f, S) ==
    IF S = {} THEN 0
    ELSE LET x == CHOOSE y \in S : TRUE IN f[x] + SumSet(f, S \ {x})

\* the first n elements of a sequence: Python's s[:n]
Take(s, n) == SubSeq(s, 1, IF Len(s) < n THEN Len(s) ELSE n)

\* dict.get(k, default)
DictGet(d, k, default) == IF k \in DOMAIN d THEN d[k] ELSE default

(***************************************************************************)
(* Numbers                                                                 *)
(***************************************************************************)
\* numpy/pandas .round() and Python's round(): ties go to the even neighbour.
\* The quotient n / d (d > 0) rounded to a whole number.
RoundHalfEven(n, d) ==
    LET q == n \div d
        r == n % d
    IN IF 2 * r < d THEN q
       ELSE IF 2 * r > d THEN q + 1
       ELSE IF q % 2 = 0 THEN q ELSE q + 1

\* .clip(lower=0) and max(0.0, x)
Clip0(x) == IF x < 0 THEN 0 ELSE x

PerUnit == 40            \* fortieths in one unit
None == -1               \* Python's None where a number is expected

\* the largest and smallest element of a non-empty set of integers
MaxOf(S) == CHOOSE x \in S : \A y \in S : y <= x
MinOf(S) == CHOOSE x \in S : \A y \in S : x <= y

(***************************************************************************)
(* Binary floating point.  The code computes in float64 (and in float32    *)
(* where numpy keeps the regressor's dtype), and rounds the result.  A     *)
(* float is sign * m * 2^e with a whole m of at most 53 (or 24) bits; m is *)
(* a sequence of limbs below 2^14, the least significant first, so that    *)
(* every product of limbs stays below 2^31.                                *)
(***************************************************************************)
Float64 == 53            \* bits of a float64 mantissa
Float32 == 24            \* bits of a float32 mantissa

\* TLC computes the argument of an operator wherever the parameter stands.
\* An operation of this section is defined on values (...Of) and binds its
\* arguments (v \in {x}), so that each is computed once, and a recursion
\* hands on values.
Pow2Table ==
    <<1, 2, 4, 8, 16, 32, 64, 128, 256, 512, 1024, 2048, 4096, 8192, 16384,
      32768, 65536, 131072, 262144, 524288, 1048576, 2097152, 4194304,
      8388608, 16777216, 33554432, 67108864, 134217728, 268435456,
      536870912, 1073741824>>
Pow2(k) == Pow2Table[k + 1]

Limb == 128 * 128
LimbBits == 7 + 7

\* the number of bits of a limb
LimbLen(x) == CHOOSE n \in 0..LimbBits : x < Pow2(n) /\ (n = 0 \/ x >= Pow2(n - 1))

BigLimb(a, i) == IF i <= Len(a) THEN a[i] ELSE 0

\* without leading zero limbs; a \o <<>> is a with its limbs computed
BigTop(a) == MaxOf({0} \cup {i \in 1..Len(a) : a[i] # 0})
BigTrimOf(a) == SubSeq(a, 1, BigTop(a))
BigTrim(a) ==
    CHOOSE r \in {BigTrimOf(va) : va \in {a \o <<>>}} : TRUE

\* 0 <= n < 2^31
BigOfInt(n) == BigTrim(<<n % Limb, (n \div Limb) % Limb, n \div (Limb * Limb)>>)

RECURSIVE BigToIntFrom(_, _)
BigToIntFrom(a, i) == IF i > Len(a) THEN 0 ELSE a[i] + Limb * BigToIntFrom(a, i + 1)
BigToInt(a) ==
    CHOOSE r \in {BigToIntFrom(va, 1) : va \in {a}} : TRUE

\* a + b: a carry comes into limb i when a limb below makes one and every
\* limb between hands it on
BigLimbSum(a, b, i) == BigLimb(a, i) + BigLimb(b, i)
BigCarryInto(a, b, i) ==
    IF \E j \in 1..(i - 1) :
          /\ BigLimbSum(a, b, j) >= Limb
          /\ \A k \in (j + 1)..(i - 1) : BigLimbSum(a, b, k) = Limb - 1
    THEN 1 ELSE 0
BigMaxLen(a, b) == IF Len(a) > Len(b) THEN Len(a) ELSE Len(b)
BigAddOf(a, b) ==
    BigTrim([i \in 1..(BigMaxLen(a, b) + 1) |->
                (BigLimbSum(a, b, i) + BigCarryInto(a, b, i)) % Limb])
BigAdd(a, b) ==
    CHOOSE r \in {BigAddOf(va, vb) : va \in {a \o <<>>}, vb \in {b \o <<>>}} : TRUE

\* a - b for a >= b: limb i lends when a limb below borrows and every limb
\* between hands the loan on
BigBorrowInto(a, b, i) ==
    IF \E j \in 1..(i - 1) :
          /\ a[j] < BigLimb(b, j)
          /\ \A k \in (j + 1)..(i - 1) : a[k] = BigLimb(b, k)
    THEN 1 ELSE 0
BigSubOf(a, b) ==
    BigTrim([i \in 1..Len(a) |->
                (a[i] - BigLimb(b, i) - BigBorrowInto(a, b, i) + Limb) % Limb])
BigSub(a, b) ==
    CHOOSE r \in {BigSubOf(va, vb) : va \in {a}, vb \in {b}} : TRUE

\* -1, 0 or 1 as a < b, a = b or a > b: the top limb that differs decides
BigTopDiff(a, b) == MaxOf({0} \cup {i \in 1..Len(a) : a[i] # b[i]})
BigCmpAt(a, b, i) == IF i = 0 THEN 0 ELSE IF a[i] < b[i] THEN -1 ELSE 1
BigCmpOf(a, b) ==
    IF Len(a) < Len(b) THEN -1
    ELSE IF Len(a) > Len(b) THEN 1
    ELSE BigCmpAt(a, b, BigTopDiff(a, b))
BigCmp(a, b) ==
    CHOOSE r \in {BigCmpOf(va, vb) : va \in {a}, vb \in {b}} : TRUE

\* a * k for 0 <= k < Limb: the low halves of the products of the limbs,
\* plus the high halves one limb up
BigMulSmallOf(a, k) ==
    IF a = <<>> THEN <<>>
    ELSE BigAdd([i \in 1..Len(a) |-> (a[i] * k) % Limb],
                <<0>> \o [i \in 1..Len(a) |-> (a[i] * k) \div Limb])
BigMulSmall(a, k) ==
    CHOOSE r \in {BigMulSmallOf(va, vk) : va \in {a}, vk \in {k}} : TRUE

BigShiftLimbs(a, n) == IF a = <<>> THEN <<>> ELSE [i \in 1..n |-> 0] \o a

RECURSIVE BigMulFrom(_, _, _)
BigMulFrom(a, b, j) ==
    IF j > Len(b) THEN <<>>
    ELSE BigAdd(BigShiftLimbs(BigMulSmall(a, b[j]), j - 1), BigMulFrom(a, b, j + 1))
BigMul(a, b) ==
    CHOOSE r \in {BigMulFrom(va, vb, 1) : va \in {a}, vb \in {b}} : TRUE

\* a * 2^k
BigShlOf(a, k) ==
    BigShiftLimbs(BigMulSmall(a, Pow2(k % LimbBits)), k \div LimbBits)
BigShl(a, k) ==
    CHOOSE r \in {BigShlOf(va, vk) : va \in {a}, vk \in {k}} : TRUE

\* the whole part of a / 2^s for s < LimbBits: a limb takes the low s bits
\* of the limb above on top of its own high bits
BigShrBits(a, s) ==
    BigTrim([i \in 1..Len(a) |->
                (a[i] \div Pow2(s)) + (BigLimb(a, i + 1) % Pow2(s)) * Pow2(LimbBits - s)])
\* the whole part of a / 2^k
BigShrOf(a, k) ==
    IF k \div LimbBits >= Len(a) THEN <<>>
    ELSE BigShrBits(SubSeq(a, (k \div LimbBits) + 1, Len(a)), k % LimbBits)
BigShr(a, k) ==
    CHOOSE r \in {BigShrOf(va, vk) : va \in {a}, vk \in {k}} : TRUE

BigBitLen(a) == IF a = <<>> THEN 0 ELSE LimbBits * (Len(a) - 1) + LimbLen(a[Len(a)])

RECURSIVE BigDigit(_, _, _)
\* the largest d <= guess with b * d <= r
BigDigit(r, b, guess) ==
    IF BigCmp(BigMulSmall(b, guess), r) <= 0 THEN guess ELSE BigDigit(r, b, guess - 1)

\* the next limb of a quotient: r / b for r < b * Limb, where the top limb
\* of b is at least Limb / 2, so that the quotient of the top limbs is at
\* most two too large
MinLimb(top) == IF top < Limb THEN top ELSE Limb - 1
BigGuess(r, b) ==
    MinLimb((BigLimb(r, Len(b) + 1) * Limb + BigLimb(r, Len(b))) \div b[Len(b)])

\* the state of a long division of a by b: the limbs q of the quotient found
\* so far, from the top, and what the limbs of a used so far leave
BigDivState(q, rest, a, b) == [q |-> q, rest |-> rest, a |-> a, b |-> b]
\* the limbs of a above the first limb of the quotient are below b
BigDivLimbs(a, b) == IF Len(a) < Len(b) THEN 0 ELSE Len(a) - Len(b) + 1
BigDivStart(a, b) ==
    BigDivState(<<>>, SubSeq(a, BigDivLimbs(a, b) + 1, Len(a)), a, b)
\* one limb of the long division: the next limb of a comes down to the
\* rest, and the limb d of the quotient goes below the limbs found so far
BigDivDown(st) ==
    BigTrimOf(<<st.a[BigDivLimbs(st.a, st.b) - Len(st.q)]>> \o st.rest)
BigDivDigit(st, cur, d) ==
    BigDivState(<<d>> \o st.q, BigSub(cur, BigMulSmall(st.b, d)), st.a, st.b)
BigDivStep(st) ==
    CHOOSE r \in {BigDivDigit(st, w[1], w[2]) :
                   w \in {<<cur, BigDigit(cur, st.b, BigGuess(cur, st.b))>> :
                           cur \in {BigDivDown(st)}}} : TRUE

RECURSIVE BigDivFrom(_)
\* long division, a limb of the quotient at a time from the top down
BigDivFrom(st) ==
    IF Len(st.q) = BigDivLimbs(st.a, st.b) THEN st
    ELSE CHOOSE r \in {BigDivFrom(t) : t \in {BigDivStep(st)}} : TRUE

BigDivBack(st, sh) == <<BigTrim(st.q), BigShr(st.rest, sh)>>
\* a and b scaled by 2^sh, so that the top limb of b is at least Limb / 2
BigDivNorm(a, b, sh) ==
    CHOOSE r \in {BigDivBack(st, sh) :
                   st \in {BigDivFrom(BigDivStart(sa, sb)) :
                            sa \in {BigShl(a, sh)}, sb \in {BigShl(b, sh)}}} : TRUE
\* <<quotient, remainder>> of a / b for b # 0
BigDivModOf(a, b) == BigDivNorm(a, b, LimbBits - LimbLen(b[Len(b)]))
BigDivMod(a, b) ==
    CHOOSE r \in {BigDivModOf(va, vb) : va \in {a}, vb \in {b}} : TRUE

\* a float: the value is (IF neg THEN -1 ELSE 1) * m * 2^e
Flt(neg, m, e) == [neg |-> neg, m |-> m, e |-> e]
FltZero == Flt(FALSE, <<>>, 0)

\* m * 2^e, with a nonzero rest below the last bit of m when sticky, rounded
\* to p bits, a tie to the even neighbour
\* the rest compared with half a unit decides: above it, or at it with a
\* sticky rest or an odd q, the quotient q goes up
UpBy(half, sticky, q) == half > 0 \/ (half = 0 /\ (sticky \/ BigLimb(q, 1) % 2 = 1))
\* q = m \div 2^s goes up
RoundsUp(m, s, sticky, q) ==
    UpBy(BigCmp(BigSub(m, BigShl(q, s)), BigShl(<<1>>, s - 1)), sticky, q)
BigAddBit(q, up) == IF up THEN BigAdd(q, <<1>>) ELSE q
FltRoundQ(neg, m, e, sticky, s, q) ==
    Flt(neg, BigAddBit(q, RoundsUp(m, s, sticky, q)), e + s)
FltRoundBy(neg, m, e, sticky, s) ==
    IF s <= 0 THEN Flt(neg, m, e)
    ELSE CHOOSE r \in {FltRoundQ(neg, m, e, sticky, s, q) : q \in {BigShr(m, s)}} : TRUE
FltRoundBits(neg, m, e, sticky, p) ==
    IF m = <<>> THEN FltZero ELSE FltRoundBy(neg, m, e, sticky, BigBitLen(m) - p)
FltRound(neg, m, e, sticky, p) ==
    CHOOSE r \in {FltRoundBits(neg, vm, e, vs, p) : vm \in {m}, vs \in {sticky}} : TRUE

FltOfInt(n) == IF n < 0 THEN Flt(TRUE, BigOfInt(-n), 0) ELSE Flt(FALSE, BigOfInt(n), 0)

FltNegOf(x) == IF x.m = <<>> THEN x ELSE Flt(~x.neg, x.m, x.e)
FltNeg(x) ==
    CHOOSE r \in {FltNegOf(vx) : vx \in {x}} : TRUE

FltMulOf(x, y, p) ==
    IF x.m = <<>> \/ y.m = <<>> THEN FltZero
    ELSE FltRound(x.neg # y.neg, BigMul(x.m, y.m), x.e + y.e, FALSE, p)
FltMul(x, y, p) ==
    CHOOSE r \in {FltMulOf(vx, vy, p) : vx \in {x}, vy \in {y}} : TRUE

\* x / y for y # 0: the quotient of the mantissas with two bits more than p
\* and the rest as the sticky bit
FltDivRound(x, y, p, k, qr) ==
    FltRound(x.neg # y.neg, qr[1], x.e - y.e - k, qr[2] # <<>>, p)
FltDivBy(x, y, p, k) ==
    CHOOSE r \in {FltDivRound(x, y, p, k, qr) :
                   qr \in {BigDivModOf(m, y.m) : m \in {BigShl(x.m, k)}}} : TRUE
Max0(k) == IF k > 0 THEN k ELSE 0
FltDivOf(x, y, p) ==
    IF x.m = <<>> \/ y.m = <<>> THEN FltZero
    ELSE FltDivBy(x, y, p, Max0(p + 2 + BigBitLen(y.m) - BigBitLen(x.m)))
FltDiv(x, y, p) ==
    CHOOSE r \in {FltDivOf(vx, vy, p) : vx \in {x}, vy \in {y}} : TRUE

\* the mantissa of x at the exponent e <= x.e
FltAt(x, e) == BigShl(x.m, x.e - e)

\* -1, 0 or 1 as x < y, x = y or x > y
MinExp(x, y) == IF x.e < y.e THEN x.e ELSE y.e
FltCmpAt(x, y, e) == BigCmp(FltAt(x, e), FltAt(y, e))
FltCmpOf(x, y) ==
    IF x.m = <<>> /\ y.m = <<>> THEN 0
    ELSE IF x.m = <<>> THEN (IF y.neg THEN 1 ELSE -1)
    ELSE IF y.m = <<>> THEN (IF x.neg THEN -1 ELSE 1)
    ELSE IF x.neg # y.neg THEN (IF x.neg THEN -1 ELSE 1)
    ELSE (IF x.neg THEN -1 ELSE 1) * FltCmpAt(x, y, MinExp(x, y))
FltCmp(x, y) ==
    CHOOSE r \in {FltCmpOf(vx, vy) : vx \in {x}, vy \in {y}} : TRUE

\* the sum of neg * a * 2^e and a number of the other sign of magnitude
\* b * 2^e, where c compares a with b
FltSubAt(neg, a, b, e, c) ==
    IF c = 0 THEN Flt(FALSE, <<>>, e)
    ELSE IF c > 0 THEN Flt(neg, BigSub(a, b), e)
    ELSE Flt(~neg, BigSub(b, a), e)
\* the exact sum of x and y, whose mantissas at the exponent e are a and b
FltSumAt(x, y, e, a, b) ==
    IF x.neg = y.neg THEN Flt(x.neg, BigAdd(a, b), e)
    ELSE FltSubAt(x.neg, a, b, e, BigCmp(a, b))
FltSumExact(x, y, e) == FltSumAt(x, y, e, FltAt(x, e), FltAt(y, e))
FltRoundOf(z, p) == FltRound(z.neg, z.m, z.e, FALSE, p)
FltAddOf(x, y, p) ==
    FltRoundOf(IF x.m = <<>> THEN y
               ELSE IF y.m = <<>> THEN x
               ELSE FltSumExact(x, y, MinExp(x, y)), p)
FltAdd(x, y, p) ==
    CHOOSE r \in {FltAddOf(vx, vy, p) : vx \in {x}, vy \in {y}} : TRUE

\* the whole number nearest to k * x, a tie to the even one: numpy's rint
\* for k = 1, and Python's round(x, 1) in tenths for k = 10
\* n / 2^s to the nearest whole number, where q = n \div 2^s
RoundedQuot(n, s, q) == BigToInt(BigAddBit(q, RoundsUp(n, s, FALSE, q)))
FltMagTimes(x, n) ==
    IF x.e >= 0 THEN BigToInt(BigShl(n, x.e))
    ELSE RoundedQuot(n, -x.e, BigShr(n, -x.e))
FltRoundTimesOf(x, k) ==
    (IF x.neg THEN -1 ELSE 1) * FltMagTimes(x, BigMulSmall(x.m, k))
FltRoundTimes(x, k) ==
    CHOOSE r \in {FltRoundTimesOf(vx, k) : vx \in {x}} : TRUE

\* the float nearest to n / d: a literal such as 0.85, or what round(x, 1)
\* returns for n tenths
FltOfRatio(n, d, p) == FltDiv(FltOfInt(n), FltOfInt(d), p)

\* a float64 as a float32
FltTo32Of(x) == FltRound(x.neg, x.m, x.e, FALSE, Float32)
FltTo32(x) ==
    CHOOSE r \in {FltTo32Of(vx) : vx \in {x}} : TRUE

\* max(0.0, x)
FltClip0Of(x) == IF x.neg THEN FltZero ELSE x
FltClip0(x) ==
    CHOOSE r \in {FltClip0Of(vx) : vx \in {x}} : TRUE

\* x / 2
FltHalfOf(x) == IF x.m = <<>> THEN x ELSE Flt(x.neg, x.m, x.e - 1)
FltHalf(x) ==
    CHOOSE r \in {FltHalfOf(vx) : vx \in {x}} : TRUE

\* max(lo, min(hi, x))
FltClampOf(x, lo, hi) ==
    IF FltCmp(x, lo) < 0 THEN lo ELSE IF FltCmp(x, hi) > 0 THEN hi ELSE x
FltClamp(x, lo, hi) ==
    CHOOSE r \in {FltClampOf(vx, vlo, vhi) : vx \in {x}, vlo \in {lo}, vhi \in {hi}} : TRUE

\* max(x, y) of Python: x unless y is larger
FltMaxOf(x, y) == IF FltCmp(y, x) > 0 THEN y ELSE x
FltMax(x, y) ==
    CHOOSE r \in {FltMaxOf(vx, vy) : vx \in {x}, vy \in {y}} : TRUE

RECURSIVE BigSqrtFrom(_, _)
\* Newton's iteration for the whole part of the square root of a, from an
\* x that is not below the root: the next x is y, until y stops falling
BigSqrtFrom(a, x) ==
    CHOOSE r \in {IF BigCmpOf(y, x) >= 0 THEN x ELSE BigSqrtFrom(a, y) :
                   y \in {BigShrOf(w, 1) :
                           w \in {BigAddOf(x, qr[1]) :
                                   qr \in {BigDivModOf(a, x)}}}} : TRUE
BigSqrtOf(a) ==
    IF a = <<>> THEN <<>>
    ELSE CHOOSE r \in {BigSqrtFrom(a, x) :
                        x \in {BigShl(<<1>>, (BigBitLen(a) + 1) \div 2)}} : TRUE

\* np.sqrt(x) for x >= 0: the root of the mantissa shifted by j bits, j
\* such that the exponent left is even and the root has more than p bits,
\* and the rest as the sticky bit
FltSqrtRound(w, root, e, p) ==
    FltRound(FALSE, root, e, BigCmp(BigMul(root, root), w) # 0, p)
FltSqrtBy(x, j, p) ==
    CHOOSE r \in {FltSqrtRound(w[1], w[2], (x.e - j) \div 2, p) :
                   w \in {<<m, BigSqrtOf(m)>> : m \in {BigShl(x.m, j)}}} : TRUE
FltSqrtShift(x, j) == j + ((x.e - j) % 2)
FltSqrtOf(x, p) ==
    IF x.m = <<>> THEN FltZero
    ELSE FltSqrtBy(x, FltSqrtShift(x, Max0(2 * p + 2 - BigBitLen(x.m))), p)
FltSqrt(x, p) ==
    CHOOSE r \in {FltSqrtOf(vx, p) : vx \in {x}} : TRUE

\* np.ceil(x) as a whole number
FltCeilBelow(x, q) ==
    IF x.neg THEN -BigToInt(q)
    ELSE BigToInt(q) + (IF BigCmp(BigShl(q, -x.e), x.m) # 0 THEN 1 ELSE 0)
FltCeilOf(x) ==
    IF x.e >= 0 THEN (IF x.neg THEN -1 ELSE 1) * BigToInt(BigShl(x.m, x.e))
    ELSE FltCeilBelow(x, BigShr(x.m, -x.e))
FltCeil(x) ==
    CHOOSE r \in {FltCeilOf(vx) : vx \in {x}} : TRUE

RECURSIVE FltSumFrom(_, _, _)
\* acc + s[i] + ... + s[Len(s)], added one by one
FltSumFrom(s, i, acc) ==
    IF i > Len(s) THEN acc
    ELSE CHOOSE r \in {FltSumFrom(s, i + 1, t) : t \in {FltAdd(acc, s[i], Float64)}} : TRUE

RECURSIVE FltLane(_, _, _, _)
\* one of the eight running sums of numpy's unrolled loop: acc + s[i] +
\* s[i + 8] + ... up to s[last]
FltLane(s, i, last, acc) ==
    IF i > last THEN acc
    ELSE CHOOSE r \in {FltLane(s, i + 8, last, t) : t \in {FltAdd(acc, s[i], Float64)}} : TRUE
FltLaneOf(s, j) == FltLane(s, j + 8, Len(s) - (Len(s) % 8), s[j])
FltAdd3(a, b, c, d) ==
    FltAdd(FltAdd(a, b, Float64), FltAdd(c, d, Float64), Float64)
PairwiseBlock == 16 * 8  \* PW_BLOCKSIZE of numpy's pairwise sum

RECURSIVE PairwiseSum(_)
\* numpy's pairwise_sum over the floats s: below 8 elements one by one from
\* 0, up to 128 elements eight running sums, combined two by two, and then
\* the elements past the last multiple of 8; above that the sums of two parts
PairwiseHalf(n) == (n \div 2) - ((n \div 2) % 8)
PairwiseSplit(s, h) ==
    FltAdd(PairwiseSum(SubSeq(s, 1, h)), PairwiseSum(SubSeq(s, h + 1, Len(s))),
           Float64)
PairwiseSum(s) ==
    IF Len(s) < 8 THEN FltSumFrom(s, 1, FltZero)
    ELSE IF Len(s) <= PairwiseBlock
    THEN FltSumFrom(s, Len(s) - (Len(s) % 8) + 1,
                    FltAdd(FltAdd3(FltLaneOf(s, 1), FltLaneOf(s, 2),
                                   FltLaneOf(s, 3), FltLaneOf(s, 4)),
                           FltAdd3(FltLaneOf(s, 5), FltLaneOf(s, 6),
                                   FltLaneOf(s, 7), FltLaneOf(s, 8)),
                           Float64))
    ELSE PairwiseSplit(s, PairwiseHalf(Len(s)))

\* ndarray.sum() of a contiguous float64 array: 0 + the pairwise sum
FltSum(s) ==
    CHOOSE r \in {PairwiseSum(vs) : vs \in {s \o <<>>}} : TRUE

\* round(x, 1) of a numpy.float64, in tenths: numpy multiplies by 10, takes
\* rint and divides by 10, each in float64
RoundNumpy(x) == FltRoundTimes(FltMul(x, FltOfInt(10), Float64), 1)

Abs(n) == IF n < 0 THEN -n ELSE n

\* The floats rounded in this module come from a handful of operations on
\* non-negative numbers, each correct to one part in 2^53, or in 2^24 where
\* numpy computes in float32: they are within one part in 2^22 of the exact
\* result n / d.  NearTie(n, d) holds when n / d is that close to the middle
\* of two whole numbers; only then can the float and n / d round apart.
TieBand == Pow2(19)
NearTie(n, d) == Abs(2 * (n % d) - d) <= Abs(n) \div TieBand

\* the whole number nearest to k * x, a tie to the even one, for the float x
\* that the code computed where exact arithmetic gives n / d for k * x
RoundFloat(k, x, n, d) ==
    IF NearTie(n, d) THEN FltRoundTimes(x, k) ELSE RoundHalfEven(n, d)

\* round(x, 1) in tenths where exact arithmetic gives n / d for 10 * x: x
\* is a numpy.float64 when np holds and a Python float otherwise
RoundTenths(np, x, n, d) ==
    IF NearTie(n, d) THEN (IF np THEN RoundNumpy(x) ELSE FltRoundTimes(x, 10))
    ELSE RoundHalfEven(n, d)

RECURSIVE SortAsc(_)
\* sorted(votes): a sequence of integers in ascending order
SortAsc(seq) ==
    IF seq = <<>> THEN <<>>
    ELSE LET i == CHOOSE k \in 1..Len(seq) : \A j \in 1..Len(seq) : seq[k] <= seq[j]
         IN <<seq[i]>> \o SortAsc(SubSeq(seq, 1, i - 1) \o SubSeq(seq, i + 1, Len(seq)))

\* the mutant of Median: the mean of the votes
Median_mean(votes) ==
    (SumSet(votes, DOMAIN votes)) \div Len(votes)

\* np.median(votes): the middle element, or the mean of the two middle ones
\* (votes are whole fortieths that are even, so the mean is whole)
Median(votes) ==
    LET srt == SortAsc(votes)
        n == Len(votes)
    IN IF n % 2 = 1 THEN srt[(n + 1) \div 2]
       ELSE (srt[n \div 2] + srt[(n \div 2) + 1]) \div 2

(***************************************************************************)
(* The trained models (ensemble.py, xgboost_model.py, baseline.py)         *)
(***************************************************************************)
XgbWeightPct == 30           \* HybridForecaster.xgb_weight = 0.3
FallbackShrinkPct == 85      \* waste_preds = balanced_preds * 0.85
StockoutPct == 120           \* balanced_pred * 1.20

\* what the fitted XGBRegressor does with a row: it returns a number of
\* tenths or a non-finite value, or the row makes the call raise (XGBoost
\* rejects a feature that is infinite)
XgbOutputs ==
    {[finite |-> TRUE, v |-> 1000, raises |-> FALSE],
     [finite |-> TRUE, v |-> 150, raises |-> FALSE],
     [finite |-> TRUE, v |-> -50, raises |-> FALSE],
     [finite |-> FALSE, v |-> 0, raises |-> FALSE],
     [finite |-> FALSE, v |-> 0, raises |-> TRUE]}

\* The waste model is a WasteOptimizedForecaster with a HybridForecaster of
\* its own (ensemble.py 171-176), fitted apart from the balanced model and
\* pickled to a file of its own: for a row its regressor returns what the
\* balanced model's regressor returns, or something else
OtherXgbOutput == [finite |-> TRUE, v |-> 1000, raises |-> FALSE]
RegressorPairs ==
    UNION {{[balanced |-> b, waste |-> w] : w \in {b, OtherXgbOutput}} :
              b \in XgbOutputs}

\* XGBoostForecaster.predict: non-finite becomes 0, then clip at 0 (tenths)
XGBPredict(raw) == IF raw.finite THEN Clip0(raw.v) ELSE 0

\* MovingAverageModel.predict: df["rolling_mean_7d"].fillna(0), as the
\* fraction <<sum, count>>; a missing mean is <<0, 1>>
MAPredict(row) ==
    IF row.rolling_count = 0 THEN <<0, 1>> ELSE <<row.rolling_sum, row.rolling_count>>

\* xgb_weight = 0.3 and ma_weight = 1.0 - xgb_weight, as floats
XgbWeight == FltOfRatio(XgbWeightPct, 100, Float64)
MaWeight == FltAdd(FltOfInt(1), FltNeg(XgbWeight), Float64)

\* xgb_weight * xgb_preds + ma_weight * ma_preds as the code computes it:
\* the regressor's float32 output times the weight in float32 (numpy keeps
\* the dtype of the array), the rolling mean (the sum of whole quantities
\* over their number) times the weight in float64, and their float64 sum
HybridFloat(row) ==
    LET x == FltOfRatio(XGBPredict(row.xgb), 10, Float32)
        ma == FltOfRatio(MAPredict(row)[1], MAPredict(row)[2], Float64)
    IN  FltAdd(FltMul(FltTo32(XgbWeight), x, Float32),
               FltMul(MaWeight, ma, Float64), Float64)

\* HybridForecaster.predict: (0.3 * xgb + 0.7 * ma).round().clip(lower=0),
\* in whole units
HybridPredict(row) ==
    LET x == XGBPredict(row.xgb)
        ma == MAPredict(row)
    IN Clip0(RoundFloat(1, HybridFloat(row),
                        XgbWeightPct * x * ma[2]
                          + (100 - XgbWeightPct) * 10 * ma[1],
                        1000 * ma[2]))

\* WasteOptimizedForecaster.predict on the hybrid's output `base`:
\* (base * self.shrink).round().clip(lower=0), shrink in percent
WastePredict(base, shrink) ==
    Clip0(RoundFloat(1, FltMul(FltOfInt(base), FltOfRatio(shrink, 100, Float64),
                               Float64),
                     base * shrink, 100))

(***************************************************************************)
(* predict_multi_day: inputs                                               *)
(***************************************************************************)
MaxPlaces == 2           \* places that sell

Places == 1..MaxPlaces
TargetDate == 15         \* the first forecast date; dates are day numbers

\* the sales rows of one (place, item): item 1 sells at every place, item 2
\* at place 1 only, and there it sold nothing
GroupRows(place, item) ==
    IF item = 1 /\ place = 1
    THEN {[item |-> 1, place_id |-> 1, date |-> 1, quantity_sold |-> 20],
          [item |-> 1, place_id |-> 1, date |-> 2, quantity_sold |-> 100],
          [item |-> 1, place_id |-> 1, date |-> 8, quantity_sold |-> 20]}
    ELSE IF item = 1
    THEN {[item |-> 1, place_id |-> place, date |-> 2, quantity_sold |-> 100],
          [item |-> 1, place_id |-> place, date |-> 8, quantity_sold |-> 50]}
    ELSE IF place = 1
    THEN {[item |-> 2, place_id |-> 1, date |-> 8, quantity_sold |-> 0]}
    ELSE {}

SalesGroups == {g \in Places \X {1, 2} : GroupRows(g[1], g[2]) # {}}

\* what RNNForecaster.predict_items returns for an item it covers, in tenths
LstmValue(item) == IF item = 1 THEN 600 ELSE 35

ShrinkPcts == {1, 85, 99}

\* date.weekday() of a day number
Weekday(d) == d % 7

RECURSIVE SumQty(_)
\* quantity_sold summed over a set of rows
SumQty(rows) ==
    IF rows = {} THEN 0
    ELSE LET r == CHOOSE x \in rows : TRUE
         IN r.quantity_sold + SumQty(rows \ {r})

ItemsOf(df) == {r.item : r \in df}
GroupsOf(df) == {<<r.place_id, r.item>> : r \in df}
RowsOfGroup(df, g) == {r \in df : r.place_id = g[1] /\ r.item = g[2]}

RECURSIVE SortedGroups(_)
\* groupby(["place_id", "item"]): the group keys in ascending order
SortedGroups(G) ==
    IF G = {} THEN <<>>
    ELSE LET m == CHOOSE g \in G :
                    \A h \in G : g[1] < h[1] \/ (g[1] = h[1] /\ g[2] <= h[2])
         IN <<m>> \o SortedGroups(G \ {m})

(***************************************************************************)
(* build_inference_features and the latest row per group                   *)
(***************************************************************************)
RollingWindow == 7

\* the rows of the group before `row`, at most the RollingWindow latest:
\* shift(1) then rolling(7, min_periods=1)
RollingRows(df, row) ==
    LET before == {r \in RowsOfGroup(df, <<row.place_id, row.item>>) : r.date < row.date}
    IN {r \in before : Cardinality({q \in before : q.date > r.date}) < RollingWindow}

\* sort_values("date").groupby(group_cols).last() with the features the
\* models read; xgb is what the balanced model's regressor returns for the
\* row and xgb_waste what the waste model's regressor returns
LatestRow(df, g, xgbOut) ==
    LET rows == RowsOfGroup(df, g)
        last == CHOOSE r \in rows : \A q \in rows : q.date <= r.date
    IN [place_id |-> g[1], item |-> g[2],
        quantity_sold |-> last.quantity_sold,
        rolling_sum |-> SumQty(RollingRows(df, last)),
        rolling_count |-> Cardinality(RollingRows(df, last)),
        xgb |-> xgbOut[g].balanced,
        xgb_waste |-> xgbOut[g].waste]

Latest(df, xgbOut) ==
    LET gs == SortedGroups(GroupsOf(df))
    IN [i \in 1..Len(gs) |-> LatestRow(df, gs[i], xgbOut)]

(***************************************************************************)
(* _compute_weekday_factors                                                *)
(***************************************************************************)
ItemRows(df, item) == {r \in df : r.item = item}
DowRows(df, item, dow) == {r \in ItemRows(df, item) : Weekday(r.date) = dow}

\* max(0.5, min(1.8, raw)) of the fraction raw = f[1] / f[2]
ClampFactor(f) ==
    IF 2 * f[1] < f[2] THEN <<1, 2>>
    ELSE IF 5 * f[1] > 9 * f[2] THEN <<9, 5>>
    ELSE f

\* factors[item][dow], for an item whose overall mean is positive
ItemFactor(df, item, dow) ==
    IF DowRows(df, item, dow) = {} THEN <<4, 5>>
    ELSE ClampFactor(
            <<SumQty(DowRows(df, item, dow)) * Cardinality(ItemRows(df, item)),
              Cardinality(DowRows(df, item, dow)) * SumQty(ItemRows(df, item))>>)

\* weekday_factors.get(item, {}).get(dow, 1.0): an item whose overall mean
\* is not positive has no factors
WeekdayFactor(df, item, dow) ==
    IF SumQty(ItemRows(df, item)) > 0 THEN ItemFactor(df, item, dow) ELSE <<1, 1>>

(***************************************************************************)
(* predict_multi_day: the pipeline                                         *)
(***************************************************************************)
\* balanced_model.predict(latest), per row, in fortieths
BalancedPreds(rows) == [i \in 1..Len(rows) |-> PerUnit * HybridPredict(rows[i])]

\* the row as the waste model's hybrid reads it: the same features, its own
\* regressor
WasteRow(row) == [row EXCEPT !.xgb = row.xgb_waste]

\* waste_model.predict(latest) when the model is loaded: its own hybrid's
\* prediction times shrink; else balanced_preds * 0.85
WastePreds(rows, bal, models, shrink) ==
    [i \in 1..Len(rows) |->
        IF "waste_optimized" \in models
        THEN PerUnit * WastePredict(HybridPredict(WasteRow(rows[i])), shrink)
        ELSE (bal[i] * FallbackShrinkPct) \div 100]

\* one of the two predict calls of lines 290-295 raises
PredictRaises(rows, models) ==
    \E i \in 1..Len(rows) :
        \/ rows[i].xgb.raises
        \/ ("waste_optimized" \in models /\ rows[i].xgb_waste.raises)

\* factors[item][dow] as the code computes it: the quotient of the two
\* means, each a sum of whole quantities over their number, clamped
\* raw = dow_mean[(item, dow)] / item_avg, a numpy.float64
RawFactor(df, item, dow) ==
    FltDiv(FltOfRatio(SumQty(DowRows(df, item, dow)),
                      Cardinality(DowRows(df, item, dow)), Float64),
           FltOfRatio(SumQty(ItemRows(df, item)),
                      Cardinality(ItemRows(df, item)), Float64),
           Float64)
ItemFactorFloat(df, item, dow) ==
    IF DowRows(df, item, dow) = {} THEN FltOfRatio(4, 5, Float64)
    ELSE FltClamp(RawFactor(df, item, dow),
                  FltOfRatio(1, 2, Float64), FltOfRatio(9, 5, Float64))

\* the factor is the numpy.float64 raw itself: min(1.8, raw) is raw only
\* when raw < 1.8, and max(0.5, raw) only when raw > 0.5; every other
\* factor (0.5, 1.8, 0.8 for a weekday without rows, 1.0 for an item
\* without factors) is a Python float
FactorIsNumpy(df, item, dow) ==
    /\ SumQty(ItemRows(df, item)) > 0
    /\ DowRows(df, item, dow) # {}
    /\ FltCmp(RawFactor(df, item, dow), FltOfRatio(1, 2, Float64)) > 0
    /\ FltCmp(RawFactor(df, item, dow), FltOfRatio(9, 5, Float64)) < 0

\* weekday_factors.get(item, {}).get(dow, 1.0) as a float
FactorFloat(df, item, dow) ==
    IF SumQty(ItemRows(df, item)) > 0 THEN ItemFactorFloat(df, item, dow)
    ELSE FltOfInt(1)

\* float(np.median(votes)) of two or three floats: the mean of two, the
\* middle one of three
FltMedian(v) ==
    IF Len(v) = 2 THEN FltHalf(FltAdd(v[1], v[2], Float64))
    ELSE CHOOSE x \in Range(v) :
            /\ 2 * Cardinality({k \in 1..3 : FltCmp(v[k], x) <= 0}) >= 3
            /\ 2 * Cardinality({k \in 1..3 : FltCmp(v[k], x) >= 0}) >= 3

\* the floats behind one entry of items_info
VoteFloats(b, w, l, lstm) ==
    [base_ensemble |-> FltMedian(IF lstm THEN <<b, w, l>> ELSE <<b, w>>),
     base_balanced |-> b,
     base_waste |-> w,
     base_lstm |-> l]

\* waste_preds of a row whose balanced prediction is `hybrid` and for
\* which the waste model's own hybrid predicts `whybrid`: the waste model's
\* whole number, or the float64 product balanced_preds * 0.85
WasteFloat(hybrid, whybrid, models, shrink) ==
    IF "waste_optimized" \in models
    THEN FltOfInt(WastePredict(whybrid, shrink))
    ELSE FltMul(FltOfInt(hybrid), FltOfRatio(FallbackShrinkPct, 100, Float64),
                Float64)

\* base_balanced, base_waste and base_lstm of an item as floats: the LSTM's
\* output was rounded to one decimal by predict_items
HybridFloats(hybrid, whybrid, item, models, shrink, rnn) ==
    VoteFloats(FltOfInt(hybrid), WasteFloat(hybrid, whybrid, models, shrink),
               FltOfRatio(DictGet(rnn, item, 0), 10, Float64),
               item \in DOMAIN rnn)

\* lines 314-361 in floats, for one row of latest
InfoFloats(row, models, shrink, rnn) ==
    HybridFloats(HybridPredict(row), HybridPredict(WasteRow(row)), row.item,
                 models, shrink, rnn)

\* votes = [base_balanced, base_waste] (+ [base_lstm])
Votes(b, w, l) == IF l = None THEN <<b, w>> ELSE <<b, w, l>>

\* one entry of items_info
ItemInfo(row, b, w, lstm) ==
    LET l == DictGet(lstm, row.item, None) IN
    [item |-> row.item,
     avg_daily_demand |-> 10 * row.quantity_sold,
     base_ensemble |-> Median(Votes(b, w, l)),
     base_balanced |-> b,
     base_waste |-> w,
     base_lstm |-> l,
     model_source |-> IF l = None THEN "ensemble_2model" ELSE "ensemble_3model"]

\* round(max(0.0, base * factor), 1), in tenths: base (in fortieths) and
\* the fraction f are the exact numbers, fbase and ff the floats the code
\* multiplies. The bases are Python floats; with a numpy.float64 factor (np)
\* a positive product is a numpy.float64, which max() hands on and numpy
\* rounds; a product that is not positive gives 0.0 either way
ScaleRound(base, f, fbase, ff, np) ==
    RoundTenths(np, FltClip0(FltMul(fbase, ff, Float64)),
                Clip0(base * f[1]), (PerUnit \div 10) * f[2])

\* round(max(0.0, base * factor) * 1.20, 1), in tenths: the product with
\* 1.20 of a numpy.float64 is one
ScaleStockout(base, f, fbase, ff, np) ==
    RoundTenths(np, FltMul(FltClip0(FltMul(fbase, ff, Float64)),
                           FltOfRatio(StockoutPct, 100, Float64), Float64),
                Clip0(base * f[1]) * StockoutPct, 100 * (PerUnit \div 10) * f[2])

\* the row of lines 373-393: an entry of items_info, with its floats fl, on
\* one forecast date with the factor f, as a float ff of numpy (np) or of
\* Python
ScaledRow(info, fl, forecast_date, f, ff, np) ==
    [item |-> info.item,
     date |-> forecast_date,
     avg_daily_demand |-> info.avg_daily_demand,
     forecast_balanced |->
        ScaleRound(info.base_ensemble, f, fl.base_ensemble, ff, np),
     forecast_waste_optimized |->
        ScaleRound(info.base_waste, f, fl.base_waste, ff, np),
     forecast_stockout_optimized |->
        ScaleStockout(info.base_balanced, f, fl.base_balanced, ff, np),
     model_source |-> info.model_source,
     forecast_lstm |-> IF info.base_lstm = None THEN None
                       ELSE ScaleRound(info.base_lstm, f, fl.base_lstm, ff, np),
     forecast_xgboost |-> IF info.base_lstm = None THEN None
                          ELSE ScaleRound(info.base_balanced, f,
                                          fl.base_balanced, ff, np)]

\* for info in items_info: factor = weekday_factors.get(item, {}).get(dow,
\* 1.0), and the row
ResultRow(df, info, fl, forecast_date) ==
    ScaledRow(info, fl, forecast_date,
              WeekdayFactor(df, info.item, Weekday(forecast_date)),
              FactorFloat(df, info.item, Weekday(forecast_date)),
              FactorIsNumpy(df, info.item, Weekday(forecast_date)))

\* for d in range(days_ahead): for info in items_info: results.append(...);
\* fls[i] are the floats of infos[i]
GenerateResults(df, infos, fls, target, n) ==
    [k \in 1..(n * Len(infos)) |->
        ResultRow(df, infos[((k - 1) % Len(infos)) + 1],
                  fls[((k - 1) % Len(infos)) + 1],
                  target + ((k - 1) \div Len(infos)))]

\* the forecast variables while another part of the service is observed
FIdle ==
    /\ fpc = "idle"
    /\ sales = {}
    /\ fmodels = {}
    /\ shrinkPct = FallbackShrinkPct
    /\ rawPreds = <<>>
    /\ rnnOut = <<>>
    /\ fdays = 1
    /\ latest = <<>>
    /\ balanced_preds = <<>>
    /\ waste_preds = <<>>
    /\ lstm_preds = <<>>
    /\ items_info = <<>>
    /\ results = <<>>

\* predict_multi_day from its arguments and the loaded models to its result
PredictMultiDay(df, models, shrink, xgbOut, rnn, n) ==
    IF models = {} \/ "balanced" \notin models \/ df = {} THEN <<>>
    ELSE LET lt == Latest(df, xgbOut)
             bal == BalancedPreds(lt)
             wst == WastePreds(lt, bal, models, shrink)
             lstm == [item \in DOMAIN rnn |-> (PerUnit \div 10) * rnn[item]]
             infos == [i \in 1..Len(lt) |-> ItemInfo(lt[i], bal[i], wst[i], lstm)]
             fls == [i \in 1..Len(lt) |-> InfoFloats(lt[i], models, shrink, rnn)]
         IN IF PredictRaises(lt, models) THEN <<>>
            ELSE GenerateResults(df, infos, fls, TargetDate, n)

(***************************************************************************)
(* The server: requests, the forecaster singleton, the model file          *)
(***************************************************************************)
NReq == 2                \* requests in flight

Reqs == 1..NReq
NoVersion == 0           \* None: no model, no file
InitialVersion == 1      \* the model file left by an earlier process
PartialFile == -1        \* a model file that joblib.dump has not finished
MinHistory == 7          \* forecast_future: len(item_hist) < 7 is skipped

\* the version a training run of request r produces
NewVersion(r) == InitialVersion + r

Kinds ==
    {[endpoint |-> "train", force_retrain |-> TRUE],
     [endpoint |-> "train", force_retrain |-> FALSE],
     [endpoint |-> "features", force_retrain |-> FALSE],
     [endpoint |-> "forecast", force_retrain |-> FALSE],
     [endpoint |-> "health", force_retrain |-> FALSE]}

\* the model files and the rows of sales history a server starts with: no
\* files with a short or a sufficient history, the balanced model without
\* any sales, both models, and the waste-optimized model alone
ServerInputs ==
    {[pkl |-> {}, rows |-> 3],
     [pkl |-> {}, rows |-> MinHistory],
     [pkl |-> {"balanced"}, rows |-> 0],
     [pkl |-> {"balanced", "waste_optimized"}, rows |-> 3],
     [pkl |-> {"waste_optimized"}, rows |-> 3]}

\* DemandForecaster.__init__: nothing trained
Untrained == [model |-> NoVersion, feature_columns |-> NoVersion, metrics |-> NoVersion]

\* model_data of a file: the three parts save() wrote together
ModelData(v) == [model |-> v, feature_columns |-> v, metrics |-> v]

NoAnswer == [status |-> 0, tag |-> "", rows |-> <<>>]
Answer(status, tag, rows) == [status |-> status, tag |-> tag, rows |-> rows]

\* the daily sales the handlers query: one item at one place, n days
ServerSales(n) ==
    {[item |-> 1, place_id |-> 1, date |-> d, quantity_sold |-> 20] : d \in 1..n}

\* get_forecaster() is a Depends() of the routes, resolved in a worker
\* thread before the handler starts; health_check calls it in its own body,
\* on the event loop. get_tool_executor() calls it once more when it builds
\* the ToolExecutor: by then an object is stored and never removed, so that
\* call only reads _instances; the executor's own forecaster field
\* (model_routes.py 92-93) is not part of this state
OnLoop(r) == rkind[r].endpoint = "health"

\* the mutant of CanRun: the handler runs in a worker thread, whatever the
\* event loop is doing
CanRun_threadpool(r) == TRUE

\* "async def" handlers run on the one event loop (run.py: a single uvicorn
\* process): a handler starts or goes on only when no other handler is
\* running
CanRun(r) == loop \in {0, r}

\* the mutant of AfterStep: the handler awaits after every step
AfterStep_await(r, finished) == 0

\* the handlers' bodies have no await: the loop stays with the handler
\* until it returns or raises
AfterStep(r, finished) == IF finished THEN 0 ELSE r

\* the server's variables while another part of the service is observed
SIdle ==
    /\ loop = 0
    /\ rkind = [r \in Reqs |-> [endpoint |-> "features", force_retrain |-> FALSE]]
    /\ rpc = [r \in Reqs |-> "idle"]
    /\ rfc = [r \in Reqs |-> 0]
    /\ inst = 0
    /\ obj = [o \in Reqs |-> Untrained]
    /\ disk = NoVersion
    /\ trainerModel = [r \in Reqs |-> NoVersion]
    /\ loaded = [r \in Reqs |-> NoVersion]
    /\ pklFiles = {}
    /\ models_cache = {}
    /\ histRows = 0
    /\ snap = [r \in Reqs |-> Untrained]
    /\ resp = [r \in Reqs |-> NoAnswer]

(***************************************************************************)
(* Cold start: cold_start_forecast (model_routes.py 514-721) and the       *)
(* agent tool _tool_estimate_new_product (tools.py 532-634).  A frame is   *)
(* the avg_daily column of a query result, in tenths, in the query's       *)
(* ORDER BY avg_daily DESC; every row has at least 5 active days.         *)
(***************************************************************************)
MaxSimilar == 3          \* rows a similarity query returns
AvgDailyVals == {0, 12, 30, 80}
GlobalAvgVals == {40, 80}
ColdStartFactorPct == 70 \* cold_start_factor = 0.7
ToolDefaultAvg == 50     \* avg_demand = 5.0 when the tool finds no product

ColdFrames ==
    {f \in UNION {[1..n -> AvgDailyVals] : n \in 0..MaxSimilar} :
        \A i \in 1..(Len(f) - 1) : f[i] >= f[i + 1]}

SumSeq(s) == SumSet(s, DOMAIN s)
SumSquares(s) == SumSet([i \in DOMAIN s |-> s[i] * s[i]], DOMAIN s)

\* avg_vals.mean(), as a fraction
UnweightedAvg(df) == <<SumSeq(df), Len(df)>>

\* weights = avg_vals / avg_vals.sum() if the sum is positive, and
\* np.average(avg_vals, weights=weights); else avg_vals.mean()
WeightedAvg(df) ==
    IF SumSeq(df) > 0 THEN <<SumSquares(df), SumSeq(df)>>
    ELSE UnweightedAvg(df)

\* estimated_daily = weighted_avg * cold_start_factor
EstimatedDaily(df) ==
    <<ColdStartFactorPct * WeightedAvg(df)[1], 100 * WeightedAvg(df)[2]>>

\* weekends -20%, Fridays +10%, in percent
DayFactorPct(dow) ==
    IF dow \in {5, 6} THEN 80 ELSE IF dow = 4 THEN 110 ELSE 100

RECURSIVE AvgVals(_)
\* avg_vals: the avg_daily column as floats
AvgVals(df) ==
    IF df = <<>> THEN <<>>
    ELSE <<FltOfRatio(Head(df), 10, Float64)>> \o AvgVals(Tail(df))

RECURSIVE FltWeights(_, _)
\* avg_vals / avg_vals.sum()
FltWeights(a, total) ==
    IF a = <<>> THEN <<>>
    ELSE <<FltDiv(Head(a), total, Float64)>> \o FltWeights(Tail(a), total)

RECURSIVE FltProducts(_, _)
\* np.multiply(a, wgt)
FltProducts(a, w) ==
    IF a = <<>> THEN <<>>
    ELSE <<FltMul(Head(a), Head(w), Float64)>> \o FltProducts(Tail(a), Tail(w))

\* avg_vals.mean(), or with a positive sum np.average(avg_vals, weights):
\* np.multiply(a, wgt).sum() / wgt.sum(), as floats
WeightedAvgFloat(df) ==
    LET a == AvgVals(df)
        total == FltSum(a)
    IN  IF SumSeq(df) > 0
        THEN FltDiv(FltSum(FltProducts(a, FltWeights(a, total))),
                    FltSum(FltWeights(a, total)), Float64)
        ELSE FltDiv(total, FltOfInt(Len(df)), Float64)

\* weighted_avg * cold_start_factor as a float
EstimatedFloat(df) ==
    FltMul(WeightedAvgFloat(df), FltOfRatio(ColdStartFactorPct, 100, Float64),
           Float64)

\* one entry of forecasts; d counts from 0, dow0 is the weekday of
\* base_date; est is the exact estimate in tenths and fest the float
\* estimated_daily
ColdForecastRow(est, fest, dow0, d) ==
    [date |-> d,
     predicted_quantity |->
        RoundFloat(10, FltMul(fest, FltOfRatio(DayFactorPct((dow0 + d) % 7), 100,
                                               Float64), Float64),
                   est[1] * DayFactorPct((dow0 + d) % 7), est[2] * 100),
     confidence |-> "low",
     model_source |-> "cold_start_estimate"]

\* the route's answer
ColdResponse(df, method, est, dow0, n) ==
    [status |-> 200,
     estimated_daily_demand |-> RoundFloat(10, EstimatedFloat(df), est[1], est[2]),
     confidence |-> "low",
     similarity_method |-> method,
     similar_products_used |-> Len(df),
     forecasts |-> [k \in 1..n |->
                      ColdForecastRow(est, EstimatedFloat(df), dow0, k - 1)]]

\* the tool: avg_demand = mean of avg_daily, or 5.0 without rows;
\* estimated = round(avg_demand * 0.7, 1)
ToolEstimate(df) ==
    IF df = <<>>
    THEN RoundFloat(10, FltMul(FltOfRatio(ToolDefaultAvg, 10, Float64),
                               FltOfRatio(ColdStartFactorPct, 100, Float64),
                               Float64),
                    ColdStartFactorPct * ToolDefaultAvg, 100)
    ELSE RoundFloat(10, FltMul(FltDiv(FltSum(AvgVals(df)), FltOfInt(Len(df)),
                                      Float64),
                               FltOfRatio(ColdStartFactorPct, 100, Float64),
                               Float64),
                    ColdStartFactorPct * SumSeq(df), 100 * Len(df))

ToolResult(df, method) ==
    [new_product |-> TRUE,
     estimated_daily_demand |-> ToolEstimate(df),
     confidence |-> "low",
     method |-> method,
     similar_products |-> Len(Take(df, 10))]

NoColdAnswer == [status |-> 0]

\* the cold-start variables while another part of the service is observed
CIdle ==
    /\ cpc = "idle"
    /\ name_words = TRUE
    /\ category = FALSE
    /\ kw_df = <<>>
    /\ cat_df = <<>>
    /\ global_row = 0
    /\ top_df = <<>>
    /\ cdays = 1
    /\ base_dow = 0
    /\ similar_df = <<>>
    /\ similarity_method = "none"
    /\ estimated_daily = <<0, 1>>
    /\ cold_response = NoColdAnswer
    /\ tool_result = NoColdAnswer

(***************************************************************************)
(* Inventory optimizer (src/inventory-forecasting/src/inventory/           *)
(* optimizer.py).  forecast_std is in tenths, z_score in twentieths.  A    *)
(* value that holds a square root is kept as its square: for the           *)
(* non-negative arguments used here the value is non-negative, so squares  *)
(* order and compare to zero as the values do.                             *)
(***************************************************************************)
MaxCalls == 3            \* calls of calculate_safety_stock in a row
StdVals == {0, 1, 100}   \* forecast_std: 0, 0.1, 10
LeadVals == {0, 1, 4}    \* lead_time_days
ZVals == {0, 33}         \* z_score: 0 (50% service level), 1.65 (95%)

calculate_safety_stock_nolead(forecast_std, lead_time_days, z_score) ==
    (z_score * forecast_std) * (z_score * forecast_std)

\* z_score * forecast_std * np.sqrt(lead_time_days), squared, in
\* two-hundredths squared
calculate_safety_stock(forecast_std, lead_time_days, z_score) ==
    (z_score * forecast_std) * (z_score * forecast_std) * lead_time_days

SafetyArgs ==
    [forecast_std : StdVals, lead_time_days : LeadVals, z_score : ZVals]

\* the optimizer's variables while another part is observed
OIdle ==
    /\ ss_calls = <<>>

(***************************************************************************)
(* generate_prep_recommendations (optimizer.py 45-111).  A group is the    *)
(* quantity_sold and predicted columns of one (place_id, item_id), sorted  *)
(* by date, in whole units; predicted = <<>> stands for a frame without    *)
(* the forecast column.  The exact values of the locals are kept for the   *)
(* properties: variances are fractions <<numerator, denominator>> in       *)
(* units squared, in lowest terms, and NaN for the std of a single row.    *)
(* The row holds what the code computes in float64.                        *)
(***************************************************************************)
MaxGroups == 2           \* groups of df
NaN == <<0, 0>>          \* a missing mean or std; a missing lag is None
NotANumber == -1         \* nan in a field of tenths that is never negative
MinStdVar == <<1, 100>>  \* the minimum std 0.1, squared
ErrorRows == 7           \* the error std is used with more rows than this

Const(v, n) == [i \in 1..n |-> v]
PrepSeries ==
    {<<<<10, 10>>, <<10, 10>>>>,
     <<<<0, 0>>, <<0, 0>>>>,
     <<Const(10, 8), Const(8, 8)>>,
     <<<<5, 15>>, <<10, 10>>>>,
     <<<<0, 20>>, <<10, 10>>>>,
     <<<<8, 12>>, <<10, 10>>>>,
     <<<<10, 10>>, <<10, -3>>>>,
     <<Const(10, 8), <<8, 12, 8, 12, 8, 12, 8, 12>>>>,
     <<<<10>>, <<10>>>>}
PrepGroups(withForecast) ==
    {[actual |-> p[1], predicted |-> IF withForecast THEN p[2] ELSE <<>>] :
        p \in PrepSeries}
PrepFrames ==
    UNION {UNION {[1..n -> PrepGroups(w)] : n \in 1..MaxGroups} : w \in BOOLEAN}

RECURSIVE Gcd(_, _)
Gcd(a, b) == IF b = 0 THEN a ELSE Gcd(b, a % b)

\* a fraction with a positive denominator, in lowest terms
Lowest(f) == <<f[1] \div Gcd(f[1], f[2]), f[2] \div Gcd(f[1], f[2])>>

\* Series.std(), squared: the sample variance (ddof = 1), which divides by
\* count - 1 and is NaN for a single value
Variance(x) ==
    IF Len(x) < 2 THEN NaN
    ELSE Lowest(<<Len(x) * SumSquares(x) - SumSeq(x) * SumSeq(x),
                  Len(x) * (Len(x) - 1)>>)

\* lines 68-72: the std of the forecast errors with more than 7 rows, else
\* of the demand
ForecastVar(g) ==
    IF g.predicted # <<>> /\ Len(g.actual) > ErrorRows
    THEN Variance([i \in DOMAIN g.actual |-> g.actual[i] - g.predicted[i]])
    ELSE Variance(g.actual)

\* forecast_std = max(forecast_std, 0.1): 0.1 when 0.1 > forecast_std, which
\* is False for NaN
FloorStd(v) ==
    IF v # NaN /\ v[1] * MinStdVar[2] < MinStdVar[1] * v[2] THEN MinStdVar ELSE v

\* group[actual_col].mean()
AvgDemand(g) == Lowest(<<SumSeq(g.actual), Len(g.actual)>>)

\* calculate_safety_stock(forecast_std, lead_time_days, z_score), squared, in
\* two-hundredths squared, for forecast_std = sqrt(v); NaN for a NaN std,
\* whatever z_score and lead_time_days are
SafetyOfVar(v, lead, z) ==
    IF v = NaN THEN NaN ELSE <<calculate_safety_stock(10, lead, z) * v[1], v[2]>>

\* max(avg_demand, 0.1)
FloorAvg(m) == IF 10 * m[1] < m[2] THEN <<1, 10>> ELSE m

\* cv = forecast_std / max(avg_demand, 0.1), squared; NaN for a NaN std
CvSquared(v, m) ==
    IF v = NaN THEN NaN
    ELSE <<v[1] * FloorAvg(m)[2] * FloorAvg(m)[2],
           v[2] * FloorAvg(m)[1] * FloorAvg(m)[1]>>

\* a column of whole numbers as float64 values
FltSeq(x) == [i \in DOMAIN x |-> FltOfInt(x[i])]

\* Series.mean(): values.sum() / count
FltMean(v) == FltDiv(FltSum(v), FltOfInt(Len(v)), Float64)

\* (avg - values) ** 2
FltSquare(x) ==
    CHOOSE r \in {FltMul(vx, vx, Float64) : vx \in {x}} : TRUE
FltSqDev(v, avg) ==
    [i \in DOMAIN v |-> FltSquare(FltAdd(avg, FltNeg(v[i]), Float64))]

\* Series.std() of two or more values (pandas nanvar with ddof = 1, and
\* np.sqrt): avg = values.sum() / count, ((avg - values) ** 2).sum() /
\* (count - 1)
FltStdFrom(v, avg) ==
    FltSqrt(FltDiv(FltSum(FltSqDev(v, avg)), FltOfInt(Len(v) - 1), Float64),
            Float64)
FltStdOf(v) ==
    CHOOSE r \in {FltStdFrom(v, avg) : avg \in {FltMean(v)}} : TRUE
\* nan, which is no number of the form Flt(neg, m, e)
FltNaN == [nan |-> TRUE]
\* of a single value the std is nan: 0.0 / 0
FltStd(x) ==
    IF Len(x) < 2 THEN FltNaN
    ELSE CHOOSE r \in {FltStdOf(v) : v \in {FltSeq(x) \o <<>>}} : TRUE

\* max(forecast_std, 0.1) of Python: 0.1 if 0.1 > forecast_std, else
\* forecast_std; a comparison with nan is False, so nan stays
FltMinStd(fstd) ==
    IF fstd = FltNaN THEN FltNaN ELSE FltMax(fstd, FltOfRatio(1, 10, Float64))

\* lines 68-74: the std of the errors with more than 7 rows, else of the
\* demand, and max(forecast_std, 0.1)
FltForecastStd(g) ==
    FltMinStd(IF g.predicted # <<>> /\ Len(g.actual) > ErrorRows
              THEN FltStd([i \in DOMAIN g.actual |-> g.actual[i] - g.predicted[i]])
              ELSE FltStd(g.actual))

\* last_row.get(forecast_col, avg_demand)
FltForecastDemand(g, favg) ==
    IF g.predicted # <<>> THEN FltOfInt(g.predicted[Len(g.predicted)]) ELSE favg

\* calculate_safety_stock in floats: z_score * forecast_std *
\* np.sqrt(lead_time_days), from the left, for z twentieths; a product
\* with nan is nan, also with z_score 0
FltSafetyStock(fstd, lead, z) ==
    IF fstd = FltNaN THEN FltNaN
    ELSE FltMul(FltMul(FltOfRatio(z, 20, Float64), fstd, Float64),
                FltSqrt(FltOfInt(lead), Float64), Float64)

\* np.ceil(forecast_demand + safety)
CeilSum(fdemand, fsafety) == FltCeil(FltAdd(fdemand, fsafety, Float64))

\* cv = forecast_std / max(avg_demand, 0.1); cv > 0.8 red, cv > 0.4
\* yellow, else green
AlertOf(cv) ==
    IF FltCmp(cv, FltOfRatio(4, 5, Float64)) > 0 THEN "red"
    ELSE IF FltCmp(cv, FltOfRatio(2, 5, Float64)) > 0 THEN "yellow"
    ELSE "green"
\* a cv of nan is neither > 0.8 nor > 0.4
AlertLevel(fstd, favg) ==
    IF fstd = FltNaN THEN "green"
    ELSE AlertOf(FltDiv(fstd, FltMax(favg, FltOfRatio(1, 10, Float64)), Float64))

\* int(max(0, np.ceil(forecast_demand + safety))): np.ceil of nan is nan,
\* and max(0, nan) is 0 because nan > 0 is False
PrepQty(fdemand, fsafety) ==
    IF fsafety = FltNaN THEN 0 ELSE Clip0(CeilSum(fdemand, fsafety))

\* round(x, 1) of a numpy.float64 in tenths; nan stays nan
RoundNumpyNaN(x) == IF x = FltNaN THEN NotANumber ELSE RoundNumpy(x)

\* the locals of one pass of the loop, as exact values
PrepLocals(g, lead, z) ==
    [raw_var |-> ForecastVar(g),
     forecast_var |-> FloorStd(ForecastVar(g)),
     avg_demand |-> AvgDemand(g),
     forecast_demand |-> IF g.predicted # <<>>
                         THEN <<g.predicted[Len(g.predicted)], 1>>
                         ELSE AvgDemand(g),
     safety_sq |-> SafetyOfVar(FloorStd(ForecastVar(g)), lead, z),
     cv_sq |-> CvSquared(FloorStd(ForecastVar(g)), AvgDemand(g))]

\* lines 94-107, in tenths: safety and avg_demand are numpy.float64, which
\* numpy rounds; so is forecast_std unless it is the 0.1 of line 74, which
\* either rounding leaves at 0.1
PrepRow(fstd, favg, fdemand, fsafety) ==
    [safety_stock |-> RoundNumpyNaN(fsafety),
     recommended_prep_qty |-> PrepQty(fdemand, fsafety),
     avg_daily_demand |-> RoundNumpy(favg),
     demand_std |-> RoundNumpyNaN(fstd),
     alert_level |-> AlertLevel(fstd, favg)]
PrepRowOf(g, fstd, favg, lead, z) ==
    CHOOSE r \in {PrepRow(fstd, favg, fdemand, fsafety) :
                   fdemand \in {FltForecastDemand(g, favg)},
                   fsafety \in {FltSafetyStock(fstd, lead, z)}} : TRUE

\* the row appended for one group
Recommendation(g, lead, z) ==
    CHOOSE r \in {PrepRowOf(g, fstd, favg, lead, z) :
                   fstd \in {FltForecastStd(g)},
                   favg \in {FltMean(FltSeq(g.actual))}} : TRUE

\* the prep variables while another part is observed
PIdle ==
    /\ prep_pc = "idle"
    /\ prep_df = <<>>
    /\ prep_z = 33
    /\ prep_lead = 1
    /\ prep_locals = <<>>
    /\ recommendations = <<>>

(***************************************************************************)
(* Context signals (llm/context_signals.py).  Four advisory services are   *)
(* fetched over HTTP; the signals computed from the date alone (daylight,  *)
(* payday, retail seasons) are left out of the bias.                       *)
(***************************************************************************)
MaxSigCalls == 2         \* calls of get_all_context_signals, one after the other or at once
MaxFaults == 1           \* endpoints that do not answer as they should
Calls == 1..MaxSigCalls

\* the endpoints: fetch_holiday_info asks Nager.Date twice, for the public
\* holidays and for the long weekends
Services == {"weather", "aqi", "holidays", "long_weekends", "meteoalarm"}
\* the keys of _cache, for one target date and one days_ahead
CacheKeys == {"weather", "aqi", "holidays", "meteoalarm"}

\* how an endpoint behaves: it answers; it answers with an error status;
\* the get or resp.json() raises (no connection, no byte for ten seconds,
\* a body that is not JSON); or it keeps sending its answer, a few bytes
\* at a time and never ten seconds apart, without an end
Behaviours == {"ok", "error", "raises", "endless"}
Nets ==
    {n \in [Services -> Behaviours] :
        Cardinality({sv \in Services : n[sv] # "ok"}) <= MaxFaults}

\* get_calendar_signals: the day of the week
CalendarSignals(dow) ==
    [day_of_week |-> dow,
     is_weekend |-> dow \in {"Saturday", "Sunday"},
     is_friday |-> dow = "Friday",
     is_monday |-> dow = "Monday"]

\* get_danish_retail_signals, the fields _compute_bias reads
Retail(grilling, julefrokost, christmas, school) ==
    [is_grilling_season |-> grilling, is_julefrokost_season |-> julefrokost,
     is_christmas_season |-> christmas, is_school_holiday |-> school]
NoRetail == Retail(FALSE, FALSE, FALSE, FALSE)

\* What the services and the calendar functions report for a target date:
\* 13 March 2024, a quiet Wednesday; 7 October 2024, a rainy Monday with a
\* storm warning; 26 July 2024, a warm Friday of the summer holidays;
\* 8 May 2024, the day before Ascension Day and its long weekend; 9 May
\* 2024, Ascension Day; 29 November 2024, a Friday and the payday of the
\* month.
Worlds ==
    {[dow |-> "Wednesday", precipitation_probability |-> 10, temperature_max |-> 15,
      alert |-> FALSE, holiday |-> "none", long_weekend |-> FALSE,
      is_payday_week |-> FALSE, danish_retail |-> NoRetail],
     [dow |-> "Monday", precipitation_probability |-> 80, temperature_max |-> 12,
      alert |-> TRUE, holiday |-> "none", long_weekend |-> FALSE,
      is_payday_week |-> FALSE, danish_retail |-> NoRetail],
     [dow |-> "Friday", precipitation_probability |-> 10, temperature_max |-> 25,
      alert |-> FALSE, holiday |-> "none", long_weekend |-> FALSE,
      is_payday_week |-> FALSE, danish_retail |-> Retail(TRUE, FALSE, FALSE, TRUE)],
     [dow |-> "Wednesday", precipitation_probability |-> 10, temperature_max |-> 15,
      alert |-> FALSE, holiday |-> "tomorrow", long_weekend |-> TRUE,
      is_payday_week |-> FALSE, danish_retail |-> Retail(TRUE, FALSE, FALSE, FALSE)],
     [dow |-> "Thursday", precipitation_probability |-> 10, temperature_max |-> 15,
      alert |-> FALSE, holiday |-> "today", long_weekend |-> FALSE,
      is_payday_week |-> FALSE, danish_retail |-> Retail(TRUE, FALSE, FALSE, FALSE)],
     [dow |-> "Friday", precipitation_probability |-> 10, temperature_max |-> 8,
      alert |-> FALSE, holiday |-> "none", long_weekend |-> FALSE,
      is_payday_week |-> TRUE, danish_retail |-> NoRetail]}

\* httpx.AsyncClient(timeout=10.0): ten seconds for the connection and ten
\* for each read, and no limit for the request as a whole.  The awaited
\* get returns or raises unless the answer never ends
Completes(behaviour) == behaviour # "endless"

\* the fetch raised inside the try block
Failed(behaviour) == behaviour \in {"error", "raises"}

\* _get_cached(key), None when the key has no entry younger than the TTL
Cached(cache, key) == key \in DOMAIN cache
\* _set_cached(key, data)
SetCached(cache, key, data) ==
    [k \in DOMAIN cache \cup {key} |-> IF k = key THEN data ELSE cache[k]]

\* fetch_weather_forecast: the result, or {"error": str(e)}
WeatherResult(w) ==
    [error |-> FALSE,
     precipitation_probability |-> w.precipitation_probability,
     temperature_max |-> w.temperature_max]
WeatherError ==
    [error |-> TRUE, precipitation_probability |-> None, temperature_max |-> None]

\* fetch_air_quality: the result, or {}
AirResult == [european_aqi |-> 30]
AirEmpty == <<>>

\* fetch_weather_alerts: the list of alerts, or []
AlertsResult(w) == IF w.alert THEN <<"storm">> ELSE <<>>

\* holidays_data after "resp = await client.get(url)": the year's list
\* (what it says about the target date) on status 200, else still []
HolidaysAnswer(behaviour, w) == IF behaviour = "ok" THEN w.holiday ELSE "empty"
\* long_weekends after "lw_resp = await client.get(lw_url)"
LongWeekendsAnswer(behaviour, w) == behaviour = "ok" /\ w.long_weekend
\* "if not holidays_data": the holidays library, when it can be imported
HolidayFallback(data, lib, w) ==
    IF data = "empty" /\ lib THEN w.holiday ELSE data
\* data = {"holidays": holidays_data, "long_weekends": long_weekends}
HolidayData(data, long_weekends, lib, w) ==
    [holidays |-> HolidayFallback(data, lib, w), long_weekends |-> long_weekends]

\* _process_holiday_data
ProcessHolidayData(data) ==
    [is_holiday |-> data.holidays = "today",
     is_day_before_holiday |-> data.holidays = "tomorrow",
     is_day_after_holiday |-> data.holidays = "yesterday",
     long_weekend_approaching |-> data.long_weekends]

Count(b) == IF b THEN 1 ELSE 0

\* _compute_bias: the reasons for each side and the bias
StockoutReasons(sig) ==
    Count(sig.is_friday \/ sig.is_weekend)
    + Count(sig.holidays.is_day_before_holiday
            \/ sig.holidays.long_weekend_approaching)
    + Count(sig.weather.temperature_max # None /\ sig.weather.temperature_max > 22)
    + Count(sig.is_payday_week)
    + Count(sig.danish_retail.is_grilling_season)
    + Count(sig.danish_retail.is_julefrokost_season)
    + Count(sig.danish_retail.is_christmas_season)
    + Count(sig.danish_retail.is_school_holiday)
WasteReasons(sig) ==
    Count(sig.is_monday)
    + Count(sig.holidays.is_holiday)
    + Count(sig.holidays.is_day_after_holiday)
    + Count(sig.weather.precipitation_probability \notin {None, 0}
            /\ sig.weather.precipitation_probability > 60)
    + Count(sig.severe_weather_alerts # <<>>)
BiasOf(score) ==
    IF score >= 2 THEN "stockout_reduce"
    ELSE IF score <= -1 THEN "waste_reduce"
    ELSE "neutral"
ComputeBias(sig) ==
    [bias |-> BiasOf(StockoutReasons(sig) - WasteReasons(sig)),
     stockout_signals |-> StockoutReasons(sig),
     waste_signals |-> WasteReasons(sig)]

\* "signals = {**cal, "weather": weather, ...}"
UnifiedContext(w, wx, aq, hol, al) ==
    [day_of_week |-> CalendarSignals(w.dow).day_of_week,
     is_weekend |-> CalendarSignals(w.dow).is_weekend,
     is_friday |-> CalendarSignals(w.dow).is_friday,
     is_monday |-> CalendarSignals(w.dow).is_monday,
     weather |-> wx,
     air_quality |-> aq,
     severe_weather_alerts |-> al,
     holidays |-> hol,
     is_payday_week |-> w.is_payday_week,
     danish_retail |-> w.danish_retail]
\* get_all_context_signals, lines 547-566: what it returns
AllContextSignals(w, wx, aq, hol, al) ==
    [status |-> "returned",
     context |-> UnifiedContext(w, wx, aq, hol, al),
     recommendation_bias |-> ComputeBias(UnifiedContext(w, wx, aq, hol, al))]

NoSignals == [status |-> "none"]
NoHoliday == ProcessHolidayData([holidays |-> "empty", long_weekends |-> FALSE])
QuietWorld ==
    [dow |-> "Wednesday", precipitation_probability |-> 10, temperature_max |-> 15,
     alert |-> FALSE, holiday |-> "none", long_weekend |-> FALSE,
     is_payday_week |-> FALSE, danish_retail |-> NoRetail]

\* the signal variables while another part is observed
GIdle ==
    /\ sig_pc = [c \in Calls |-> "idle"]
    /\ net = [sv \in Services |-> "ok"]
    /\ world = QuietWorld
    /\ lib_installed = TRUE
    /\ sig_cache = <<>>
    /\ sig_calls = 0
    /\ weather = [c \in Calls |-> WeatherError]
    /\ air_quality = [c \in Calls |-> AirEmpty]
    /\ holidays_data = [c \in Calls |-> "empty"]
    /\ holiday_info = [c \in Calls |-> NoHoliday]
    /\ alerts = [c \in Calls |-> <<>>]
    /\ signals = [c \in Calls |-> NoSignals]

(***************************************************************************)
(* Lag and rolling features (features/lag_features.py for training,        *)
(* build_inference_features for inference) and the predict of the three    *)
(* model variants                                                          *)
(***************************************************************************)
FeatRows == 30           \* rows of the longest sales series of the group

\* quantity_sold of a day: a weekly shape, a trend and a base level
Demand(p, d) == p.weekly * (d % 7) + p.trend * d + p.base

DemandShapes ==
    {[weekly |-> 3, trend |-> 0, base |-> 5],
     [weekly |-> 0, trend |-> 1, base |-> 0],
     [weekly |-> 3, trend |-> 1, base |-> 2],
     [weekly |-> 0, trend |-> 0, base |-> 4]}

\* days without a sale have no row
FeatureGaps == {{}, {5}, {9, 10}}
SeriesLengths == {3, 11, FeatRows - 1, FeatRows}

RECURSIVE DaysAsc(_)
\* the days of a set in ascending order
DaysAsc(D) ==
    IF D = {} THEN <<>>
    ELSE <<MinOf(D)>> \o DaysAsc(D \ {MinOf(D)})

\* the daily sales of one (place, item), sorted by date
SalesSeries(p, n, gap) ==
    LET days == DaysAsc((1..(n + Cardinality(gap))) \ gap)
    IN [i \in 1..n |-> [date |-> days[i], quantity_sold |-> Demand(p, days[i])]]

FeatureInputs ==
    {SalesSeries(p, n, gap) : p \in DemandShapes, n \in SeriesLengths, gap \in FeatureGaps}

\* what the fitted XGBRegressor returns: a constant, a value that follows
\* the latest demand and goes below 0, or a non-finite value
RegressorKinds == {"constant", "demand", "nonfinite"}

RECURSIVE RowsByDate(_)
\* the rows of a set, one per date, in ascending order of date
RowsByDate(rows) ==
    IF rows = {} THEN <<>>
    ELSE LET first == CHOOSE r \in rows : \A q \in rows : r.date <= q.date
         IN <<first>> \o RowsByDate(rows \ {first})

\* df.sort_values(group_cols + ["date"]) within the one group
SortByDate(df) == RowsByDate(Range(df))

Qty(df) == [i \in 1..Len(df) |-> df[i].quantity_sold]

\* grouped.shift(k) at row i
Shift(x, k, i) == IF i > k THEN x[i - k] ELSE None

\* the rows under the window of x.shift(s).rolling(w) at row i
WindowRows(i, s, w) == {j \in 1..(i - s) : j > i - s - w}

\* .mean() over the rows S, NaN with fewer than min_periods rows
MeanOver(x, S, min_periods) ==
    IF Cardinality(S) < min_periods THEN NaN
    ELSE Lowest(<<SumSet(x, S), Cardinality(S)>>)

\* .std() over the rows S (ddof = 1), kept as its square
StdOver(x, S, min_periods) ==
    IF Cardinality(S) < min_periods THEN NaN
    ELSE LET n == Cardinality(S)
             sq == [j \in DOMAIN x |-> x[j] * x[j]]
         IN Lowest(<<n * SumSet(sq, S) - SumSet(x, S) * SumSet(x, S), n * (n - 1)>>)

\* (x.shift(7) + x.shift(14) + x.shift(21) + x.shift(28)) / 4: NaN as soon
\* as one of the four is missing
SumOfFourShifts(x, i) ==
    IF i > 28 THEN Lowest(<<x[i - 7] + x[i - 14] + x[i - 21] + x[i - 28], 4>>)
    ELSE NaN

\* add_lag_features (lag_features.py 10-35)
add_lag_features(df) ==
    LET s == SortByDate(df)
        x == Qty(s)
    IN [i \in 1..Len(s) |->
          [date |-> s[i].date,
           quantity_sold |-> s[i].quantity_sold,
           demand_lag_1d |-> Shift(x, 1, i),
           demand_lag_7d |-> Shift(x, 7, i),
           demand_lag_14d |-> Shift(x, 14, i),
           demand_lag_28d |-> Shift(x, 28, i)]]

\* add_rolling_features (lag_features.py 38-84), on the frame with the lags
add_rolling_features(df) ==
    LET s == SortByDate(df)
        x == Qty(s)
    IN [i \in 1..Len(s) |->
          [date |-> s[i].date,
           quantity_sold |-> s[i].quantity_sold,
           demand_lag_1d |-> s[i].demand_lag_1d,
           demand_lag_7d |-> s[i].demand_lag_7d,
           demand_lag_14d |-> s[i].demand_lag_14d,
           demand_lag_28d |-> s[i].demand_lag_28d,
           rolling_mean_7d |-> MeanOver(x, WindowRows(i, 1, 7), 1),
           rolling_mean_14d |-> MeanOver(x, WindowRows(i, 1, 14), 1),
           rolling_mean_30d |-> MeanOver(x, WindowRows(i, 1, 30), 1),
           rolling_std_7d |-> StdOver(x, WindowRows(i, 1, 7), 2),
           rolling_std_14d |-> StdOver(x, WindowRows(i, 1, 14), 2),
           demand_same_weekday_last_week |-> Shift(x, 7, i),
           demand_same_weekday_avg_4weeks |-> SumOfFourShifts(x, i),
           expanding_mean |-> MeanOver(x, 1..(i - 1), 1)]]

\* build_inference_features (model_service.py 115-147), the lag and rolling
\* columns; the frame comes sorted by (item, date)
build_inference_features(df) ==
    LET x == Qty(df)
    IN [i \in 1..Len(df) |->
          [date |-> df[i].date,
           quantity_sold |-> df[i].quantity_sold,
           demand_lag_1d |-> Shift(x, 1, i),
           demand_lag_7d |-> Shift(x, 7, i),
           demand_lag_14d |-> Shift(x, 14, i),
           demand_lag_28d |-> Shift(x, 28, i),
           demand_same_weekday_last_week |-> Shift(x, 7, i),
           rolling_mean_7d |-> MeanOver(x, WindowRows(i, 1, 7), 1),
           rolling_mean_14d |-> MeanOver(x, WindowRows(i, 1, 14), 1),
           rolling_mean_30d |-> MeanOver(x, WindowRows(i, 1, 30), 1),
           rolling_std_7d |-> StdOver(x, WindowRows(i, 1, 7), 2),
           rolling_std_14d |-> StdOver(x, WindowRows(i, 1, 14), 2),
           demand_same_weekday_avg_4weeks |-> MeanOver(x, WindowRows(i, 7, 4), 1),
           expanding_mean |-> MeanOver(x, 1..i, 1)]]

\* self.model.predict(X) of the fitted regressor on one feature row, tenths
RegressorOutput(kind, row) ==
    IF kind = "constant" THEN [finite |-> TRUE, v |-> 150]
    ELSE IF kind = "demand"
    THEN [finite |-> TRUE,
          v |-> 10 * (IF row.demand_lag_1d = None THEN 0 ELSE row.demand_lag_1d) - 50]
    ELSE [finite |-> FALSE, v |-> 0]

\* DemandForecaster.predict (forecaster.py 81-88): the regressor's output
DemandForecasterPredict(raw) == raw

\* MovingAverageModel.predict (baseline.py 41-50): df[feat_col].fillna(0)
MovingAveragePredict(row) ==
    IF row.rolling_mean_7d = NaN THEN <<0, 1>> ELSE row.rolling_mean_7d

NoPredictions == [xgboost |-> <<>>, demand_forecaster |-> <<>>, moving_average |-> <<>>]

\* the feature variables while another part is observed
LIdle ==
    /\ fe_pc = "idle"
    /\ fe_sales = <<>>
    /\ fe_model = "constant"
    /\ train_df = <<>>
    /\ infer_df = <<>>
    /\ fe_preds = NoPredictions

(***************************************************************************)
(* Business cost of forecasts (models/evaluator.py).  Quantities are whole *)
(* units, prices whole DKK; waste and stockout costs are tenths of a DKK,  *)
(* multipliers halves and total costs twentieths of a DKK.                 *)
(***************************************************************************)
MaxEvalRows == 3         \* rows of the evaluated frame
DefaultPrice == 75       \* fillna(75): the price of an item without price
WasteFractionTenths == 3 \* waste_fraction = 0.3

EvalRowKinds ==
    [actual : {0, 5}, predicted : {0, 5, 8}, item_price : {None, 40}]
EvalFrames == UNION {[1..n -> EvalRowKinds] : n \in 1..MaxEvalRows}

\* waste_multiplier and stockout_multiplier of total_business_cost_dkk
\* (1.0, 1.5), profit_oriented_cost_dkk (1.0, 2.0) and
\* sustainability_cost_dkk (2.0, 1.0)
DefaultMult == [waste |-> 2, stockout |-> 3]
ProfitMult == [waste |-> 2, stockout |-> 4]
SustainabilityMult == [waste |-> 4, stockout |-> 2]

\* df[price_col].fillna(75)
Prices(df) ==
    [i \in DOMAIN df |-> IF df[i].item_price = None THEN DefaultPrice ELSE df[i].item_price]

\* the mutant of waste_cost_dkk: the absolute error in place of the overstock
waste_cost_abs(actual, predicted, prices) ==
    SumSet([i \in DOMAIN actual |->
                (IF predicted[i] >= actual[i] THEN predicted[i] - actual[i]
                 ELSE actual[i] - predicted[i]) * prices[i] * WasteFractionTenths],
           DOMAIN actual)

\* waste_cost_dkk: (np.maximum(predicted - actual, 0) * prices * 0.3).sum()
waste_cost_dkk(actual, predicted, prices) ==
    SumSet([i \in DOMAIN actual |->
                Clip0(predicted[i] - actual[i]) * prices[i] * WasteFractionTenths],
           DOMAIN actual)

\* stockout_cost_dkk: (np.maximum(actual - predicted, 0) * prices).sum()
stockout_cost_dkk(actual, predicted, prices) ==
    SumSet([i \in DOMAIN actual |-> Clip0(actual[i] - predicted[i]) * prices[i] * 10],
           DOMAIN actual)

\* total_business_cost_dkk: waste_multiplier * wc + stockout_multiplier * sc
total_business_cost_dkk(actual, predicted, prices, mult) ==
    mult.waste * waste_cost_dkk(actual, predicted, prices)
        + mult.stockout * stockout_cost_dkk(actual, predicted, prices)

Actuals(df) == [i \in DOMAIN df |-> df[i].actual]
Predicted(df) == [i \in DOMAIN df |-> df[i].predicted]

\* the business metrics of evaluate_predictions' "overall" (lines 170-172)
EvaluateOverall(df) ==
    [waste_cost_dkk |-> waste_cost_dkk(Actuals(df), Predicted(df), Prices(df)),
     stockout_cost_dkk |-> stockout_cost_dkk(Actuals(df), Predicted(df), Prices(df)),
     total_business_cost_dkk |->
        total_business_cost_dkk(Actuals(df), Predicted(df), Prices(df), DefaultMult)]

\* one row of compare_models_business_impact (lines 229-241):
\* tc = wc + 1.5 * sc
CompareRow(df, preds) ==
    LET wc == waste_cost_dkk(Actuals(df), preds, Prices(df))
        sc == stockout_cost_dkk(Actuals(df), preds, Prices(df))
    IN [waste_cost_dkk |-> wc, stockout_cost_dkk |-> sc,
        total_business_cost_dkk |-> 2 * wc + 3 * sc]

NoCost == [waste_cost_dkk |-> 0, stockout_cost_dkk |-> 0, total_business_cost_dkk |-> 0]

\* the cost variables while another part is observed
EIdle ==
    /\ ev_pc = "idle"
    /\ ev_df = <<>>
    /\ ev_mult = DefaultMult
    /\ ev_out = NoCost

(***************************************************************************)
(* The SQL tool and the query endpoint: text handling and the guard        *)
(***************************************************************************)
MaxSqlCalls == 2

\* Query texts are sequences of one-character strings.
Q_SelectOne == <<"S", "E", "L", "E", "C", "T", " ", "1">>
Q_SelectCreated == <<"s", "e", "l", "e", "c", "t", " ", "c", "r", "e", "a", "t", "e", "d", " ", "f", "r", "o", "m", " ", "t">>
Q_DropView == <<"D", "R", "O", "P", " ", "V", "I", "E", "W", " ", "t">>
Q_DropLower == <<"d", "r", "o", "p", " ", "v", "i", "e", "w", " ", "t">>
Q_DeleteIndented == <<" ", " ", "D", "E", "L", "E", "T", "E", " ", "F", "R", "O", "M", " ", "t">>
Q_InsertRow == <<"I", "N", "S", "E", "R", "T", " ", "I", "N", "T", "O", " ", "t", " ", "V", "A", "L", "U", "E", "S", " ", "(", "1", ")">>
Q_UpdateRow == <<"U", "p", "d", "a", "t", "e", " ", "t", " ", "S", "E", "T", " ", "a", " ", "=", " ", "1">>
Q_AlterTable == <<"A", "L", "T", "E", "R", " ", "T", "A", "B", "L", "E", " ", "t", " ", "A", "D", "D", " ", "b", " ", "I", "N", "T">>
Q_CreateTable == <<"C", "R", "E", "A", "T", "E", " ", "T", "A", "B", "L", "E", " ", "u", " ", "(", "a", " ", "I", "N", "T", ")">>
Q_TruncateTable == <<"T", "R", "U", "N", "C", "A", "T", "E", " ", "t", "\n">>
Q_SelectThenDrop == <<"S", "E", "L", "E", "C", "T", " ", "1", ";", " ", "D", "R", "O", "P", " ", "V", "I", "E", "W", " ", "t">>
Q_CommentThenDelete == <<"/", "*", "*", "/", "D", "E", "L", "E", "T", "E", " ", "F", "R", "O", "M", " ", "t">>
Q_SemiThenCreate == <<";", "C", "R", "E", "A", "T", "E", " ", "T", "A", "B", "L", "E", " ", "u", " ", "(", "a", " ", "I", "N", "T", ")">>
Q_NbspDrop == <<"U+00A0", "D", "R", "O", "P", " ", "V", "I", "E", "W", " ", "t", "U+000B">>
Q_ReturnDelete == <<"\r", "U+2003", "d", "e", "l", "e", "t", "e", " ", "F", "R", "O", "M", " ", "t", "\f", "U+0085">>
Q_DotlessInsert == <<"U+0131", "n", "s", "e", "r", "t", " ", "i", "n", "t", "o", " ", "t", " ", "v", "a", "l", "u", "e", "s", " ", "(", "1", ")">>
Q_LongSInsert == <<"i", "n", "U+017F", "e", "r", "t", " ", "i", "n", "t", "o", " ", "t", " ", "v", "a", "l", "u", "e", "s", " ", "(", "1", ")">>
Q_Strasse == <<"s", "t", "r", "a", "U+00DF", "e">>
Queries ==
    {Q_DotlessInsert, Q_LongSInsert, Q_Strasse, Q_SelectOne, Q_SelectCreated, Q_DropView, Q_DropLower, Q_DeleteIndented, Q_InsertRow, Q_UpdateRow, Q_AlterTable, Q_CreateTable, Q_TruncateTable, Q_SelectThenDrop, Q_CommentThenDelete, Q_SemiThenCreate, Q_NbspDrop, Q_ReturnDelete}

LowerCase ==
    <<"a", "b", "c", "d", "e", "f", "g", "h", "i", "j", "k", "l", "m",
      "n", "o", "p", "q", "r", "s", "t", "u", "v", "w", "x", "y", "z">>
UpperCase ==
    <<"A", "B", "C", "D", "E", "F", "G", "H", "I", "J", "K", "L", "M",
      "N", "O", "P", "Q", "R", "S", "T", "U", "V", "W", "X", "Y", "Z">>
\* The characters str.strip() removes, those of str.isspace(): U+0009 to
\* U+000D, U+001C to U+001F, the space, U+0085, U+00A0, U+1680, U+2000 to
\* U+200A, U+2028, U+2029, U+202F, U+205F and U+3000.  A character with no
\* escape of its own is written by its code point.
Whitespace ==
    {"\t", "\n", "U+000B", "\f", "\r", "U+001C", "U+001D", "U+001E", "U+001F",
     " ", "U+0085", "U+00A0", "U+1680", "U+2000", "U+2001", "U+2002",
     "U+2003", "U+2004", "U+2005", "U+2006", "U+2007", "U+2008", "U+2009",
     "U+200A", "U+2028", "U+2029", "U+202F", "U+205F", "U+3000"}
\* The blanks between the tokens of a statement
SqlBlank == {" ", "\t", "\n", "\r", "\f"}

\* str.upper(), character by character: the upper case of every character
\* that has one other than itself (the 1525 characters of Unicode 14 for
\* which Python's str.upper() returns something else, among them U+00DF,
\* which becomes "SS", the dotless i U+0131, which becomes "I", and the long
\* s U+017F, which becomes "S").  A character with no escape of its own is
\* written by its code point.
UpperTable ==
    <<
      <<"a", <<"A">>>>, <<"b", <<"B">>>>, <<"c", <<"C">>>>, <<"d", <<"D">>>>,
      <<"e", <<"E">>>>, <<"f", <<"F">>>>, <<"g", <<"G">>>>, <<"h", <<"H">>>>,
      <<"i", <<"I">>>>, <<"j", <<"J">>>>, <<"k", <<"K">>>>, <<"l", <<"L">>>>,
      <<"m", <<"M">>>>, <<"n", <<"N">>>>, <<"o", <<"O">>>>, <<"p", <<"P">>>>,
      <<"q", <<"Q">>>>, <<"r", <<"R">>>>, <<"s", <<"S">>>>, <<"t", <<"T">>>>,
      <<"u", <<"U">>>>, <<"v", <<"V">>>>, <<"w", <<"W">>>>, <<"x", <<"X">>>>,
      <<"y", <<"Y">>>>, <<"z", <<"Z">>>>, <<"U+00B5", <<"U+039C">>>>,
      <<"U+00DF", <<"S", "S">>>>, <<"U+00E0", <<"U+00C0">>>>,
      <<"U+00E1", <<"U+00C1">>>>, <<"U+00E2", <<"U+00C2">>>>,
      <<"U+00E3", <<"U+00C3">>>>, <<"U+00E4", <<"U+00C4">>>>,
      <<"U+00E5", <<"U+00C5">>>>, <<"U+00E6", <<"U+00C6">>>>,
      <<"U+00E7", <<"U+00C7">>>>, <<"U+00E8", <<"U+00C8">>>>,
      <<"U+00E9", <<"U+00C9">>>>, <<"U+00EA", <<"U+00CA">>>>,
      <<"U+00EB", <<"U+00CB">>>>, <<"U+00EC", <<"U+00CC">>>>,
      <<"U+00ED", <<"U+00CD">>>>, <<"U+00EE", <<"U+00CE">>>>,
      <<"U+00EF", <<"U+00CF">>>>, <<"U+00F0", <<"U+00D0">>>>,
      <<"U+00F1", <<"U+00D1">>>>, <<"U+00F2", <<"U+00D2">>>>,
      <<"U+00F3", <<"U+00D3">>>>, <<"U+00F4", <<"U+00D4">>>>,
      <<"U+00F5", <<"U+00D5">>>>, <<"U+00F6", <<"U+00D6">>>>,
      <<"U+00F8", <<"U+00D8">>>>, <<"U+00F9", <<"U+00D9">>>>,
      <<"U+00FA", <<"U+00DA">>>>, <<"U+00FB", <<"U+00DB">>>>,
      <<"U+00FC", <<"U+00DC">>>>, <<"U+00FD", <<"U+00DD">>>>,
      <<"U+00FE", <<"U+00DE">>>>, <<"U+00FF", <<"U+0178">>>>,
      <<"U+0101", <<"U+0100">>>>, <<"U+0103", <<"U+0102">>>>,
      <<"U+0105", <<"U+0104">>>>, <<"U+0107", <<"U+0106">>>>,
      <<"U+0109", <<"U+0108">>>>, <<"U+010B", <<"U+010A">>>>,
      <<"U+010D", <<"U+010C">>>>, <<"U+010F", <<"U+010E">>>>,
      <<"U+0111", <<"U+0110">>>>, <<"U+0113", <<"U+0112">>>>,
      <<"U+0115", <<"U+0114">>>>, <<"U+0117", <<"U+0116">>>>,
      <<"U+0119", <<"U+0118">>>>, <<"U+011B", <<"U+011A">>>>,
      <<"U+011D", <<"U+011C">>>>, <<"U+011F", <<"U+011E">>>>,
      <<"U+0121", <<"U+0120">>>>, <<"U+0123", <<"U+0122">>>>,
      <<"U+0125", <<"U+0124">>>>, <<"U+0127", <<"U+0126">>>>,
      <<"U+0129", <<"U+0128">>>>, <<"U+012B", <<"U+012A">>>>,
      <<"U+012D", <<"U+012C">>>>, <<"U+012F", <<"U+012E">>>>,
      <<"U+0131", <<"I">>>>, <<"U+0133", <<"U+0132">>>>,
      <<"U+0135", <<"U+0134">>>>, <<"U+0137", <<"U+0136">>>>,
      <<"U+013A", <<"U+0139">>>>, <<"U+013C", <<"U+013B">>>>,
      <<"U+013E", <<"U+013D">>>>, <<"U+0140", <<"U+013F">>>>,
      <<"U+0142", <<"U+0141">>>>, <<"U+0144", <<"U+0143">>>>,
      <<"U+0146", <<"U+0145">>>>, <<"U+0148", <<"U+0147">>>>,
      <<"U+0149", <<"U+02BC", "N">>>>, <<"U+014B", <<"U+014A">>>>,
      <<"U+014D", <<"U+014C">>>>, <<"U+014F", <<"U+014E">>>>,
      <<"U+0151", <<"U+0150">>>>, <<"U+0153", <<"U+0152">>>>,
      <<"U+0155", <<"U+0154">>>>, <<"U+0157", <<"U+0156">>>>,
      <<"U+0159", <<"U+0158">>>>, <<"U+015B", <<"U+015A">>>>,
      <<"U+015D", <<"U+015C">>>>, <<"U+015F", <<"U+015E">>>>,
      <<"U+0161", <<"U+0160">>>>, <<"U+0163", <<"U+0162">>>>,
      <<"U+0165", <<"U+0164">>>>, <<"U+0167", <<"U+0166">>>>,
      <<"U+0169", <<"U+0168">>>>, <<"U+016B", <<"U+016A">>>>,
      <<"U+016D", <<"U+016C">>>>, <<"U+016F", <<"U+016E">>>>,
      <<"U+0171", <<"U+0170">>>>, <<"U+0173", <<"U+0172">>>>,
      <<"U+0175", <<"U+0174">>>>, <<"U+0177", <<"U+0176">>>>,
      <<"U+017A", <<"U+0179">>>>, <<"U+017C", <<"U+017B">>>>,
      <<"U+017E", <<"U+017D">>>>, <<"U+017F", <<"S">>>>,
      <<"U+0180", <<"U+0243">>>>, <<"U+0183", <<"U+0182">>>>,
      <<"U+0185", <<"U+0184">>>>, <<"U+0188", <<"U+0187">>>>,
      <<"U+018C", <<"U+018B">>>>, <<"U+0192", <<"U+0191">>>>,
      <<"U+0195", <<"U+01F6">>>>, <<"U+0199", <<"U+0198">>>>,
      <<"U+019A", <<"U+023D">>>>, <<"U+019E", <<"U+0220">>>>,
      <<"U+01A1", <<"U+01A0">>>>, <<"U+01A3", <<"U+01A2">>>>,
      <<"U+01A5", <<"U+01A4">>>>, <<"U+01A8", <<"U+01A7">>>>,
      <<"U+01AD", <<"U+01AC">>>>, <<"U+01B0", <<"U+01AF">>>>,
      <<"U+01B4", <<"U+01B3">>>>, <<"U+01B6", <<"U+01B5">>>>,
      <<"U+01B9", <<"U+01B8">>>>, <<"U+01BD", <<"U+01BC">>>>,
      <<"U+01BF", <<"U+01F7">>>>, <<"U+01C5", <<"U+01C4">>>>,
      <<"U+01C6", <<"U+01C4">>>>, <<"U+01C8", <<"U+01C7">>>>,
      <<"U+01C9", <<"U+01C7">>>>, <<"U+01CB", <<"U+01CA">>>>,
      <<"U+01CC", <<"U+01CA">>>>, <<"U+01CE", <<"U+01CD">>>>,
      <<"U+01D0", <<"U+01CF">>>>, <<"U+01D2", <<"U+01D1">>>>,
      <<"U+01D4", <<"U+01D3">>>>, <<"U+01D6", <<"U+01D5">>>>,
      <<"U+01D8", <<"U+01D7">>>>, <<"U+01DA", <<"U+01D9">>>>,
      <<"U+01DC", <<"U+01DB">>>>, <<"U+01DD", <<"U+018E">>>>,
      <<"U+01DF", <<"U+01DE">>>>, <<"U+01E1", <<"U+01E0">>>>,
      <<"U+01E3", <<"U+01E2">>>>, <<"U+01E5", <<"U+01E4">>>>,
      <<"U+01E7", <<"U+01E6">>>>, <<"U+01E9", <<"U+01E8">>>>,
      <<"U+01EB", <<"U+01EA">>>>, <<"U+01ED", <<"U+01EC">>>>,
      <<"U+01EF", <<"U+01EE">>>>, <<"U+01F0", <<"J", "U+030C">>>>,
      <<"U+01F2", <<"U+01F1">>>>, <<"U+01F3", <<"U+01F1">>>>,
      <<"U+01F5", <<"U+01F4">>>>, <<"U+01F9", <<"U+01F8">>>>,
      <<"U+01FB", <<"U+01FA">>>>, <<"U+01FD", <<"U+01FC">>>>,
      <<"U+01FF", <<"U+01FE">>>>, <<"U+0201", <<"U+0200">>>>,
      <<"U+0203", <<"U+0202">>>>, <<"U+0205", <<"U+0204">>>>,
      <<"U+0207", <<"U+0206">>>>, <<"U+0209", <<"U+0208">>>>,
      <<"U+020B", <<"U+020A">>>>, <<"U+020D", <<"U+020C">>>>,
      <<"U+020F", <<"U+020E">>>>, <<"U+0211", <<"U+0210">>>>,
      <<"U+0213", <<"U+0212">>>>, <<"U+0215", <<"U+0214">>>>,
      <<"U+0217", <<"U+0216">>>>, <<"U+0219", <<"U+0218">>>>,
      <<"U+021B", <<"U+021A">>>>, <<"U+021D", <<"U+021C">>>>,
      <<"U+021F", <<"U+021E">>>>, <<"U+0223", <<"U+0222">>>>,
      <<"U+0225", <<"U+0224">>>>, <<"U+0227", <<"U+0226">>>>,
      <<"U+0229", <<"U+0228">>>>, <<"U+022B", <<"U+022A">>>>,
      <<"U+022D", <<"U+022C">>>>, <<"U+022F", <<"U+022E">>>>,
      <<"U+0231", <<"U+0230">>>>, <<"U+0233", <<"U+0232">>>>,
      <<"U+023C", <<"U+023B">>>>, <<"U+023F", <<"U+2C7E">>>>,
      <<"U+0240", <<"U+2C7F">>>>, <<"U+0242", <<"U+0241">>>>,
      <<"U+0247", <<"U+0246">>>>, <<"U+0249", <<"U+0248">>>>,
      <<"U+024B", <<"U+024A">>>>, <<"U+024D", <<"U+024C">>>>,
      <<"U+024F", <<"U+024E">>>>, <<"U+0250", <<"U+2C6F">>>>,
      <<"U+0251", <<"U+2C6D">>>>, <<"U+0252", <<"U+2C70">>>>,
      <<"U+0253", <<"U+0181">>>>, <<"U+0254", <<"U+0186">>>>,
      <<"U+0256", <<"U+0189">>>>, <<"U+0257", <<"U+018A">>>>,
      <<"U+0259", <<"U+018F">>>>, <<"U+025B", <<"U+0190">>>>,
      <<"U+025C", <<"U+A7AB">>>>, <<"U+0260", <<"U+0193">>>>,
      <<"U+0261", <<"U+A7AC">>>>, <<"U+0263", <<"U+0194">>>>,
      <<"U+0265", <<"U+A78D">>>>, <<"U+0266", <<"U+A7AA">>>>,
      <<"U+0268", <<"U+0197">>>>, <<"U+0269", <<"U+0196">>>>,
      <<"U+026A", <<"U+A7AE">>>>, <<"U+026B", <<"U+2C62">>>>,
      <<"U+026C", <<"U+A7AD">>>>, <<"U+026F", <<"U+019C">>>>,
      <<"U+0271", <<"U+2C6E">>>>, <<"U+0272", <<"U+019D">>>>,
      <<"U+0275", <<"U+019F">>>>, <<"U+027D", <<"U+2C64">>>>,
      <<"U+0280", <<"U+01A6">>>>, <<"U+0282", <<"U+A7C5">>>>,
      <<"U+0283", <<"U+01A9">>>>, <<"U+0287", <<"U+A7B1">>>>,
      <<"U+0288", <<"U+01AE">>>>, <<"U+0289", <<"U+0244">>>>,
      <<"U+028A", <<"U+01B1">>>>, <<"U+028B", <<"U+01B2">>>>,
      <<"U+028C", <<"U+0245">>>>, <<"U+0292", <<"U+01B7">>>>,
      <<"U+029D", <<"U+A7B2">>>>, <<"U+029E", <<"U+A7B0">>>>,
      <<"U+0345", <<"U+0399">>>>, <<"U+0371", <<"U+0370">>>>,
      <<"U+0373", <<"U+0372">>>>, <<"U+0377", <<"U+0376">>>>,
      <<"U+037B", <<"U+03FD">>>>, <<"U+037C", <<"U+03FE">>>>,
      <<"U+037D", <<"U+03FF">>>>,
      <<"U+0390", <<"U+0399", "U+0308", "U+0301">>>>,
      <<"U+03AC", <<"U+0386">>>>, <<"U+03AD", <<"U+0388">>>>,
      <<"U+03AE", <<"U+0389">>>>, <<"U+03AF", <<"U+038A">>>>,
      <<"U+03B0", <<"U+03A5", "U+0308", "U+0301">>>>,
      <<"U+03B1", <<"U+0391">>>>, <<"U+03B2", <<"U+0392">>>>,
      <<"U+03B3", <<"U+0393">>>>, <<"U+03B4", <<"U+0394">>>>,
      <<"U+03B5", <<"U+0395">>>>, <<"U+03B6", <<"U+0396">>>>,
      <<"U+03B7", <<"U+0397">>>>, <<"U+03B8", <<"U+0398">>>>,
      <<"U+03B9", <<"U+0399">>>>, <<"U+03BA", <<"U+039A">>>>,
      <<"U+03BB", <<"U+039B">>>>, <<"U+03BC", <<"U+039C">>>>,
      <<"U+03BD", <<"U+039D">>>>, <<"U+03BE", <<"U+039E">>>>,
      <<"U+03BF", <<"U+039F">>>>, <<"U+03C0", <<"U+03A0">>>>,
      <<"U+03C1", <<"U+03A1">>>>, <<"U+03C2", <<"U+03A3">>>>,
      <<"U+03C3", <<"U+03A3">>>>, <<"U+03C4", <<"U+03A4">>>>,
      <<"U+03C5", <<"U+03A5">>>>, <<"U+03C6", <<"U+03A6">>>>,
      <<"U+03C7", <<"U+03A7">>>>, <<"U+03C8", <<"U+03A8">>>>,
      <<"U+03C9", <<"U+03A9">>>>, <<"U+03CA", <<"U+03AA">>>>,
      <<"U+03CB", <<"U+03AB">>>>, <<"U+03CC", <<"U+038C">>>>,
      <<"U+03CD", <<"U+038E">>>>, <<"U+03CE", <<"U+038F">>>>,
      <<"U+03D0", <<"U+0392">>>>, <<"U+03D1", <<"U+0398">>>>,
      <<"U+03D5", <<"U+03A6">>>>, <<"U+03D6", <<"U+03A0">>>>,
      <<"U+03D7", <<"U+03CF">>>>, <<"U+03D9", <<"U+03D8">>>>,
      <<"U+03DB", <<"U+03DA">>>>, <<"U+03DD", <<"U+03DC">>>>,
      <<"U+03DF", <<"U+03DE">>>>, <<"U+03E1", <<"U+03E0">>>>,
      <<"U+03E3", <<"U+03E2">>>>, <<"U+03E5", <<"U+03E4">>>>,
      <<"U+03E7", <<"U+03E6">>>>, <<"U+03E9", <<"U+03E8">>>>,
      <<"U+03EB", <<"U+03EA">>>>, <<"U+03ED", <<"U+03EC">>>>,
      <<"U+03EF", <<"U+03EE">>>>, <<"U+03F0", <<"U+039A">>>>,
      <<"U+03F1", <<"U+03A1">>>>, <<"U+03F2", <<"U+03F9">>>>,
      <<"U+03F3", <<"U+037F">>>>, <<"U+03F5", <<"U+0395">>>>,
      <<"U+03F8", <<"U+03F7">>>>, <<"U+03FB", <<"U+03FA">>>>,
      <<"U+0430", <<"U+0410">>>>, <<"U+0431", <<"U+0411">>>>,
      <<"U+0432", <<"U+0412">>>>, <<"U+0433", <<"U+0413">>>>,
      <<"U+0434", <<"U+0414">>>>, <<"U+0435", <<"U+0415">>>>,
      <<"U+0436", <<"U+0416">>>>, <<"U+0437", <<"U+0417">>>>,
      <<"U+0438", <<"U+0418">>>>, <<"U+0439", <<"U+0419">>>>,
      <<"U+043A", <<"U+041A">>>>, <<"U+043B", <<"U+041B">>>>,
      <<"U+043C", <<"U+041C">>>>, <<"U+043D", <<"U+041D">>>>,
      <<"U+043E", <<"U+041E">>>>, <<"U+043F", <<"U+041F">>>>,
      <<"U+0440", <<"U+0420">>>>, <<"U+0441", <<"U+0421">>>>,
      <<"U+0442", <<"U+0422">>>>, <<"U+0443", <<"U+0423">>>>,
      <<"U+0444", <<"U+0424">>>>, <<"U+0445", <<"U+0425">>>>,
      <<"U+0446", <<"U+0426">>>>, <<"U+0447", <<"U+0427">>>>,
      <<"U+0448", <<"U+0428">>>>, <<"U+0449", <<"U+0429">>>>,
      <<"U+044A", <<"U+042A">>>>, <<"U+044B", <<"U+042B">>>>,
      <<"U+044C", <<"U+042C">>>>, <<"U+044D", <<"U+042D">>>>,
      <<"U+044E", <<"U+042E">>>>, <<"U+044F", <<"U+042F">>>>,
      <<"U+0450", <<"U+0400">>>>, <<"U+0451", <<"U+0401">>>>,
      <<"U+0452", <<"U+0402">>>>, <<"U+0453", <<"U+0403">>>>,
      <<"U+0454", <<"U+0404">>>>, <<"U+0455", <<"U+0405">>>>,
      <<"U+0456", <<"U+0406">>>>, <<"U+0457", <<"U+0407">>>>,
      <<"U+0458", <<"U+0408">>>>, <<"U+0459", <<"U+0409">>>>,
      <<"U+045A", <<"U+040A">>>>, <<"U+045B", <<"U+040B">>>>,
      <<"U+045C", <<"U+040C">>>>, <<"U+045D", <<"U+040D">>>>,
      <<"U+045E", <<"U+040E">>>>, <<"U+045F", <<"U+040F">>>>,
      <<"U+0461", <<"U+0460">>>>, <<"U+0463", <<"U+0462">>>>,
      <<"U+0465", <<"U+0464">>>>, <<"U+0467", <<"U+0466">>>>,
      <<"U+0469", <<"U+0468">>>>, <<"U+046B", <<"U+046A">>>>,
      <<"U+046D", <<"U+046C">>>>, <<"U+046F", <<"U+046E">>>>,
      <<"U+0471", <<"U+0470">>>>, <<"U+0473", <<"U+0472">>>>,
      <<"U+0475", <<"U+0474">>>>, <<"U+0477", <<"U+0476">>>>,
      <<"U+0479", <<"U+0478">>>>, <<"U+047B", <<"U+047A">>>>,
      <<"U+047D", <<"U+047C">>>>, <<"U+047F", <<"U+047E">>>>,
      <<"U+0481", <<"U+0480">>>>, <<"U+048B", <<"U+048A">>>>,
      <<"U+048D", <<"U+048C">>>>, <<"U+048F", <<"U+048E">>>>,
      <<"U+0491", <<"U+0490">>>>, <<"U+0493", <<"U+0492">>>>,
      <<"U+0495", <<"U+0494">>>>, <<"U+0497", <<"U+0496">>>>,
      <<"U+0499", <<"U+0498">>>>, <<"U+049B", <<"U+049A">>>>,
      <<"U+049D", <<"U+049C">>>>, <<"U+049F", <<"U+049E">>>>,
      <<"U+04A1", <<"U+04A0">>>>, <<"U+04A3", <<"U+04A2">>>>,
      <<"U+04A5", <<"U+04A4">>>>, <<"U+04A7", <<"U+04A6">>>>,
      <<"U+04A9", <<"U+04A8">>>>, <<"U+04AB", <<"U+04AA">>>>,
      <<"U+04AD", <<"U+04AC">>>>, <<"U+04AF", <<"U+04AE">>>>,
      <<"U+04B1", <<"U+04B0">>>>, <<"U+04B3", <<"U+04B2">>>>,
      <<"U+04B5", <<"U+04B4">>>>, <<"U+04B7", <<"U+04B6">>>>,
      <<"U+04B9", <<"U+04B8">>>>, <<"U+04BB", <<"U+04BA">>>>,
      <<"U+04BD", <<"U+04BC">>>>, <<"U+04BF", <<"U+04BE">>>>,
      <<"U+04C2", <<"U+04C1">>>>, <<"U+04C4", <<"U+04C3">>>>,
      <<"U+04C6", <<"U+04C5">>>>, <<"U+04C8", <<"U+04C7">>>>,
      <<"U+04CA", <<"U+04C9">>>>, <<"U+04CC", <<"U+04CB">>>>,
      <<"U+04CE", <<"U+04CD">>>>, <<"U+04CF", <<"U+04C0">>>>,
      <<"U+04D1", <<"U+04D0">>>>, <<"U+04D3", <<"U+04D2">>>>,
      <<"U+04D5", <<"U+04D4">>>>, <<"U+04D7", <<"U+04D6">>>>,
      <<"U+04D9", <<"U+04D8">>>>, <<"U+04DB", <<"U+04DA">>>>,
      <<"U+04DD", <<"U+04DC">>>>, <<"U+04DF", <<"U+04DE">>>>,
      <<"U+04E1", <<"U+04E0">>>>, <<"U+04E3", <<"U+04E2">>>>,
      <<"U+04E5", <<"U+04E4">>>>, <<"U+04E7", <<"U+04E6">>>>,
      <<"U+04E9", <<"U+04E8">>>>, <<"U+04EB", <<"U+04EA">>>>,
      <<"U+04ED", <<"U+04EC">>>>, <<"U+04EF", <<"U+04EE">>>>,
      <<"U+04F1", <<"U+04F0">>>>, <<"U+04F3", <<"U+04F2">>>>,
      <<"U+04F5", <<"U+04F4">>>>, <<"U+04F7", <<"U+04F6">>>>,
      <<"U+04F9", <<"U+04F8">>>>, <<"U+04FB", <<"U+04FA">>>>,
      <<"U+04FD", <<"U+04FC">>>>, <<"U+04FF", <<"U+04FE">>>>,
      <<"U+0501", <<"U+0500">>>>, <<"U+0503", <<"U+0502">>>>,
      <<"U+0505", <<"U+0504">>>>, <<"U+0507", <<"U+0506">>>>,
      <<"U+0509", <<"U+0508">>>>, <<"U+050B", <<"U+050A">>>>,
      <<"U+050D", <<"U+050C">>>>, <<"U+050F", <<"U+050E">>>>,
      <<"U+0511", <<"U+0510">>>>, <<"U+0513", <<"U+0512">>>>,
      <<"U+0515", <<"U+0514">>>>, <<"U+0517", <<"U+0516">>>>,
      <<"U+0519", <<"U+0518">>>>, <<"U+051B", <<"U+051A">>>>,
      <<"U+051D", <<"U+051C">>>>, <<"U+051F", <<"U+051E">>>>,
      <<"U+0521", <<"U+0520">>>>, <<"U+0523", <<"U+0522">>>>,
      <<"U+0525", <<"U+0524">>>>, <<"U+0527", <<"U+0526">>>>,
      <<"U+0529", <<"U+0528">>>>, <<"U+052B", <<"U+052A">>>>,
      <<"U+052D", <<"U+052C">>>>, <<"U+052F", <<"U+052E">>>>,
      <<"U+0561", <<"U+0531">>>>, <<"U+0562", <<"U+0532">>>>,
      <<"U+0563", <<"U+0533">>>>, <<"U+0564", <<"U+0534">>>>,
      <<"U+0565", <<"U+0535">>>>, <<"U+0566", <<"U+0536">>>>,
      <<"U+0567", <<"U+0537">>>>, <<"U+0568", <<"U+0538">>>>,
      <<"U+0569", <<"U+0539">>>>, <<"U+056A", <<"U+053A">>>>,
      <<"U+056B", <<"U+053B">>>>, <<"U+056C", <<"U+053C">>>>,
      <<"U+056D", <<"U+053D">>>>, <<"U+056E", <<"U+053E">>>>,
      <<"U+056F", <<"U+053F">>>>, <<"U+0570", <<"U+0540">>>>,
      <<"U+0571", <<"U+0541">>>>, <<"U+0572", <<"U+0542">>>>,
      <<"U+0573", <<"U+0543">>>>, <<"U+0574", <<"U+0544">>>>,
      <<"U+0575", <<"U+0545">>>>, <<"U+0576", <<"U+0546">>>>,
      <<"U+0577", <<"U+0547">>>>, <<"U+0578", <<"U+0548">>>>,
      <<"U+0579", <<"U+0549">>>>, <<"U+057A", <<"U+054A">>>>,
      <<"U+057B", <<"U+054B">>>>, <<"U+057C", <<"U+054C">>>>,
      <<"U+057D", <<"U+054D">>>>, <<"U+057E", <<"U+054E">>>>,
      <<"U+057F", <<"U+054F">>>>, <<"U+0580", <<"U+0550">>>>,
      <<"U+0581", <<"U+0551">>>>, <<"U+0582", <<"U+0552">>>>,
      <<"U+0583", <<"U+0553">>>>, <<"U+0584", <<"U+0554">>>>,
      <<"U+0585", <<"U+0555">>>>, <<"U+0586", <<"U+0556">>>>,
      <<"U+0587", <<"U+0535", "U+0552">>>>, <<"U+10D0", <<"U+1C90">>>>,
      <<"U+10D1", <<"U+1C91">>>>, <<"U+10D2", <<"U+1C92">>>>,
      <<"U+10D3", <<"U+1C93">>>>, <<"U+10D4", <<"U+1C94">>>>,
      <<"U+10D5", <<"U+1C95">>>>, <<"U+10D6", <<"U+1C96">>>>,
      <<"U+10D7", <<"U+1C97">>>>, <<"U+10D8", <<"U+1C98">>>>,
      <<"U+10D9", <<"U+1C99">>>>, <<"U+10DA", <<"U+1C9A">>>>,
      <<"U+10DB", <<"U+1C9B">>>>, <<"U+10DC", <<"U+1C9C">>>>,
      <<"U+10DD", <<"U+1C9D">>>>, <<"U+10DE", <<"U+1C9E">>>>,
      <<"U+10DF", <<"U+1C9F">>>>, <<"U+10E0", <<"U+1CA0">>>>,
      <<"U+10E1", <<"U+1CA1">>>>, <<"U+10E2", <<"U+1CA2">>>>,
      <<"U+10E3", <<"U+1CA3">>>>, <<"U+10E4", <<"U+1CA4">>>>,
      <<"U+10E5", <<"U+1CA5">>>>, <<"U+10E6", <<"U+1CA6">>>>,
      <<"U+10E7", <<"U+1CA7">>>>, <<"U+10E8", <<"U+1CA8">>>>,
      <<"U+10E9", <<"U+1CA9">>>>, <<"U+10EA", <<"U+1CAA">>>>,
      <<"U+10EB", <<"U+1CAB">>>>, <<"U+10EC", <<"U+1CAC">>>>,
      <<"U+10ED", <<"U+1CAD">>>>, <<"U+10EE", <<"U+1CAE">>>>,
      <<"U+10EF", <<"U+1CAF">>>>, <<"U+10F0", <<"U+1CB0">>>>,
      <<"U+10F1", <<"U+1CB1">>>>, <<"U+10F2", <<"U+1CB2">>>>,
      <<"U+10F3", <<"U+1CB3">>>>, <<"U+10F4", <<"U+1CB4">>>>,
      <<"U+10F5", <<"U+1CB5">>>>, <<"U+10F6", <<"U+1CB6">>>>,
      <<"U+10F7", <<"U+1CB7">>>>, <<"U+10F8", <<"U+1CB8">>>>,
      <<"U+10F9", <<"U+1CB9">>>>, <<"U+10FA", <<"U+1CBA">>>>,
      <<"U+10FD", <<"U+1CBD">>>>, <<"U+10FE", <<"U+1CBE">>>>,
      <<"U+10FF", <<"U+1CBF">>>>, <<"U+13F8", <<"U+13F0">>>>,
      <<"U+13F9", <<"U+13F1">>>>, <<"U+13FA", <<"U+13F2">>>>,
      <<"U+13FB", <<"U+13F3">>>>, <<"U+13FC", <<"U+13F4">>>>,
      <<"U+13FD", <<"U+13F5">>>>, <<"U+1C80", <<"U+0412">>>>,
      <<"U+1C81", <<"U+0414">>>>, <<"U+1C82", <<"U+041E">>>>,
      <<"U+1C83", <<"U+0421">>>>, <<"U+1C84", <<"U+0422">>>>,
      <<"U+1C85", <<"U+0422">>>>, <<"U+1C86", <<"U+042A">>>>,
      <<"U+1C87", <<"U+0462">>>>, <<"U+1C88", <<"U+A64A">>>>,
      <<"U+1D79", <<"U+A77D">>>>, <<"U+1D7D", <<"U+2C63">>>>,
      <<"U+1D8E", <<"U+A7C6">>>>, <<"U+1E01", <<"U+1E00">>>>,
      <<"U+1E03", <<"U+1E02">>>>, <<"U+1E05", <<"U+1E04">>>>,
      <<"U+1E07", <<"U+1E06">>>>, <<"U+1E09", <<"U+1E08">>>>,
      <<"U+1E0B", <<"U+1E0A">>>>, <<"U+1E0D", <<"U+1E0C">>>>,
      <<"U+1E0F", <<"U+1E0E">>>>, <<"U+1E11", <<"U+1E10">>>>,
      <<"U+1E13", <<"U+1E12">>>>, <<"U+1E15", <<"U+1E14">>>>,
      <<"U+1E17", <<"U+1E16">>>>, <<"U+1E19", <<"U+1E18">>>>,
      <<"U+1E1B", <<"U+1E1A">>>>, <<"U+1E1D", <<"U+1E1C">>>>,
      <<"U+1E1F", <<"U+1E1E">>>>, <<"U+1E21", <<"U+1E20">>>>,
      <<"U+1E23", <<"U+1E22">>>>, <<"U+1E25", <<"U+1E24">>>>,
      <<"U+1E27", <<"U+1E26">>>>, <<"U+1E29", <<"U+1E28">>>>,
      <<"U+1E2B", <<"U+1E2A">>>>, <<"U+1E2D", <<"U+1E2C">>>>,
      <<"U+1E2F", <<"U+1E2E">>>>, <<"U+1E31", <<"U+1E30">>>>,
      <<"U+1E33", <<"U+1E32">>>>, <<"U+1E35", <<"U+1E34">>>>,
      <<"U+1E37", <<"U+1E36">>>>, <<"U+1E39", <<"U+1E38">>>>,
      <<"U+1E3B", <<"U+1E3A">>>>, <<"U+1E3D", <<"U+1E3C">>>>,
      <<"U+1E3F", <<"U+1E3E">>>>, <<"U+1E41", <<"U+1E40">>>>,
      <<"U+1E43", <<"U+1E42">>>>, <<"U+1E45", <<"U+1E44">>>>,
      <<"U+1E47", <<"U+1E46">>>>, <<"U+1E49", <<"U+1E48">>>>,
      <<"U+1E4B", <<"U+1E4A">>>>, <<"U+1E4D", <<"U+1E4C">>>>,
      <<"U+1E4F", <<"U+1E4E">>>>, <<"U+1E51", <<"U+1E50">>>>,
      <<"U+1E53", <<"U+1E52">>>>, <<"U+1E55", <<"U+1E54">>>>,
      <<"U+1E57", <<"U+1E56">>>>, <<"U+1E59", <<"U+1E58">>>>,
      <<"U+1E5B", <<"U+1E5A">>>>, <<"U+1E5D", <<"U+1E5C">>>>,
      <<"U+1E5F", <<"U+1E5E">>>>, <<"U+1E61", <<"U+1E60">>>>,
      <<"U+1E63", <<"U+1E62">>>>, <<"U+1E65", <<"U+1E64">>>>,
      <<"U+1E67", <<"U+1E66">>>>, <<"U+1E69", <<"U+1E68">>>>,
      <<"U+1E6B", <<"U+1E6A">>>>, <<"U+1E6D", <<"U+1E6C">>>>,
      <<"U+1E6F", <<"U+1E6E">>>>, <<"U+1E71", <<"U+1E70">>>>,
      <<"U+1E73", <<"U+1E72">>>>, <<"U+1E75", <<"U+1E74">>>>,
      <<"U+1E77", <<"U+1E76">>>>, <<"U+1E79", <<"U+1E78">>>>,
      <<"U+1E7B", <<"U+1E7A">>>>, <<"U+1E7D", <<"U+1E7C">>>>,
      <<"U+1E7F", <<"U+1E7E">>>>, <<"U+1E81", <<"U+1E80">>>>,
      <<"U+1E83", <<"U+1E82">>>>, <<"U+1E85", <<"U+1E84">>>>,
      <<"U+1E87", <<"U+1E86">>>>, <<"U+1E89", <<"U+1E88">>>>,
      <<"U+1E8B", <<"U+1E8A">>>>, <<"U+1E8D", <<"U+1E8C">>>>,
      <<"U+1E8F", <<"U+1E8E">>>>, <<"U+1E91", <<"U+1E90">>>>,
      <<"U+1E93", <<"U+1E92">>>>, <<"U+1E95", <<"U+1E94">>>>,
      <<"U+1E96", <<"H", "U+0331">>>>, <<"U+1E97", <<"T", "U+0308">>>>,
      <<"U+1E98", <<"W", "U+030A">>>>, <<"U+1E99", <<"Y", "U+030A">>>>,
      <<"U+1E9A", <<"A", "U+02BE">>>>, <<"U+1E9B", <<"U+1E60">>>>,
      <<"U+1EA1", <<"U+1EA0">>>>, <<"U+1EA3", <<"U+1EA2">>>>,
      <<"U+1EA5", <<"U+1EA4">>>>, <<"U+1EA7", <<"U+1EA6">>>>,
      <<"U+1EA9", <<"U+1EA8">>>>, <<"U+1EAB", <<"U+1EAA">>>>,
      <<"U+1EAD", <<"U+1EAC">>>>, <<"U+1EAF", <<"U+1EAE">>>>,
      <<"U+1EB1", <<"U+1EB0">>>>, <<"U+1EB3", <<"U+1EB2">>>>,
      <<"U+1EB5", <<"U+1EB4">>>>, <<"U+1EB7", <<"U+1EB6">>>>,
      <<"U+1EB9", <<"U+1EB8">>>>, <<"U+1EBB", <<"U+1EBA">>>>,
      <<"U+1EBD", <<"U+1EBC">>>>, <<"U+1EBF", <<"U+1EBE">>>>,
      <<"U+1EC1", <<"U+1EC0">>>>, <<"U+1EC3", <<"U+1EC2">>>>,
      <<"U+1EC5", <<"U+1EC4">>>>, <<"U+1EC7", <<"U+1EC6">>>>,
      <<"U+1EC9", <<"U+1EC8">>>>, <<"U+1ECB", <<"U+1ECA">>>>,
      <<"U+1ECD", <<"U+1ECC">>>>, <<"U+1ECF", <<"U+1ECE">>>>,
      <<"U+1ED1", <<"U+1ED0">>>>, <<"U+1ED3", <<"U+1ED2">>>>,
      <<"U+1ED5", <<"U+1ED4">>>>, <<"U+1ED7", <<"U+1ED6">>>>,
      <<"U+1ED9", <<"U+1ED8">>>>, <<"U+1EDB", <<"U+1EDA">>>>,
      <<"U+1EDD", <<"U+1EDC">>>>, <<"U+1EDF", <<"U+1EDE">>>>,
      <<"U+1EE1", <<"U+1EE0">>>>, <<"U+1EE3", <<"U+1EE2">>>>,
      <<"U+1EE5", <<"U+1EE4">>>>, <<"U+1EE7", <<"U+1EE6">>>>,
      <<"U+1EE9", <<"U+1EE8">>>>, <<"U+1EEB", <<"U+1EEA">>>>,
      <<"U+1EED", <<"U+1EEC">>>>, <<"U+1EEF", <<"U+1EEE">>>>,
      <<"U+1EF1", <<"U+1EF0">>>>, <<"U+1EF3", <<"U+1EF2">>>>,
      <<"U+1EF5", <<"U+1EF4">>>>, <<"U+1EF7", <<"U+1EF6">>>>,
      <<"U+1EF9", <<"U+1EF8">>>>, <<"U+1EFB", <<"U+1EFA">>>>,
      <<"U+1EFD", <<"U+1EFC">>>>, <<"U+1EFF", <<"U+1EFE">>>>,
      <<"U+1F00", <<"U+1F08">>>>, <<"U+1F01", <<"U+1F09">>>>,
      <<"U+1F02", <<"U+1F0A">>>>, <<"U+1F03", <<"U+1F0B">>>>,
      <<"U+1F04", <<"U+1F0C">>>>, <<"U+1F05", <<"U+1F0D">>>>,
      <<"U+1F06", <<"U+1F0E">>>>, <<"U+1F07", <<"U+1F0F">>>>,
      <<"U+1F10", <<"U+1F18">>>>, <<"U+1F11", <<"U+1F19">>>>,
      <<"U+1F12", <<"U+1F1A">>>>, <<"U+1F13", <<"U+1F1B">>>>,
      <<"U+1F14", <<"U+1F1C">>>>, <<"U+1F15", <<"U+1F1D">>>>,
      <<"U+1F20", <<"U+1F28">>>>, <<"U+1F21", <<"U+1F29">>>>,
      <<"U+1F22", <<"U+1F2A">>>>, <<"U+1F23", <<"U+1F2B">>>>,
      <<"U+1F24", <<"U+1F2C">>>>, <<"U+1F25", <<"U+1F2D">>>>,
      <<"U+1F26", <<"U+1F2E">>>>, <<"U+1F27", <<"U+1F2F">>>>,
      <<"U+1F30", <<"U+1F38">>>>, <<"U+1F31", <<"U+1F39">>>>,
      <<"U+1F32", <<"U+1F3A">>>>, <<"U+1F33", <<"U+1F3B">>>>,
      <<"U+1F34", <<"U+1F3C">>>>, <<"U+1F35", <<"U+1F3D">>>>,
      <<"U+1F36", <<"U+1F3E">>>>, <<"U+1F37", <<"U+1F3F">>>>,
      <<"U+1F40", <<"U+1F48">>>>, <<"U+1F41", <<"U+1F49">>>>,
      <<"U+1F42", <<"U+1F4A">>>>, <<"U+1F43", <<"U+1F4B">>>>,
      <<"U+1F44", <<"U+1F4C">>>>, <<"U+1F45", <<"U+1F4D">>>>,
      <<"U+1F50", <<"U+03A5", "U+0313">>>>, <<"U+1F51", <<"U+1F59">>>>,
      <<"U+1F52", <<"U+03A5", "U+0313", "U+0300">>>>,
      <<"U+1F53", <<"U+1F5B">>>>,
      <<"U+1F54", <<"U+03A5", "U+0313", "U+0301">>>>,
      <<"U+1F55", <<"U+1F5D">>>>,
      <<"U+1F56", <<"U+03A5", "U+0313", "U+0342">>>>,
      <<"U+1F57", <<"U+1F5F">>>>, <<"U+1F60", <<"U+1F68">>>>,
      <<"U+1F61", <<"U+1F69">>>>, <<"U+1F62", <<"U+1F6A">>>>,
      <<"U+1F63", <<"U+1F6B">>>>, <<"U+1F64", <<"U+1F6C">>>>,
      <<"U+1F65", <<"U+1F6D">>>>, <<"U+1F66", <<"U+1F6E">>>>,
      <<"U+1F67", <<"U+1F6F">>>>, <<"U+1F70", <<"U+1FBA">>>>,
      <<"U+1F71", <<"U+1FBB">>>>, <<"U+1F72", <<"U+1FC8">>>>,
      <<"U+1F73", <<"U+1FC9">>>>, <<"U+1F74", <<"U+1FCA">>>>,
      <<"U+1F75", <<"U+1FCB">>>>, <<"U+1F76", <<"U+1FDA">>>>,
      <<"U+1F77", <<"U+1FDB">>>>, <<"U+1F78", <<"U+1FF8">>>>,
      <<"U+1F79", <<"U+1FF9">>>>, <<"U+1F7A", <<"U+1FEA">>>>,
      <<"U+1F7B", <<"U+1FEB">>>>, <<"U+1F7C", <<"U+1FFA">>>>,
      <<"U+1F7D", <<"U+1FFB">>>>, <<"U+1F80", <<"U+1F08", "U+0399">>>>,
      <<"U+1F81", <<"U+1F09", "U+0399">>>>,
      <<"U+1F82", <<"U+1F0A", "U+0399">>>>,
      <<"U+1F83", <<"U+1F0B", "U+0399">>>>,
      <<"U+1F84", <<"U+1F0C", "U+0399">>>>,
      <<"U+1F85", <<"U+1F0D", "U+0399">>>>,
      <<"U+1F86", <<"U+1F0E", "U+0399">>>>,
      <<"U+1F87", <<"U+1F0F", "U+0399">>>>,
      <<"U+1F88", <<"U+1F08", "U+0399">>>>,
      <<"U+1F89", <<"U+1F09", "U+0399">>>>,
      <<"U+1F8A", <<"U+1F0A", "U+0399">>>>,
      <<"U+1F8B", <<"U+1F0B", "U+0399">>>>,
      <<"U+1F8C", <<"U+1F0C", "U+0399">>>>,
      <<"U+1F8D", <<"U+1F0D", "U+0399">>>>,
      <<"U+1F8E", <<"U+1F0E", "U+0399">>>>,
      <<"U+1F8F", <<"U+1F0F", "U+0399">>>>,
      <<"U+1F90", <<"U+1F28", "U+0399">>>>,
      <<"U+1F91", <<"U+1F29", "U+0399">>>>,
      <<"U+1F92", <<"U+1F2A", "U+0399">>>>,
      <<"U+1F93", <<"U+1F2B", "U+0399">>>>,
      <<"U+1F94", <<"U+1F2C", "U+0399">>>>,
      <<"U+1F95", <<"U+1F2D", "U+0399">>>>,
      <<"U+1F96", <<"U+1F2E", "U+0399">>>>,
      <<"U+1F97", <<"U+1F2F", "U+0399">>>>,
      <<"U+1F98", <<"U+1F28", "U+0399">>>>,
      <<"U+1F99", <<"U+1F29", "U+0399">>>>,
      <<"U+1F9A", <<"U+1F2A", "U+0399">>>>,
      <<"U+1F9B", <<"U+1F2B", "U+0399">>>>,
      <<"U+1F9C", <<"U+1F2C", "U+0399">>>>,
      <<"U+1F9D", <<"U+1F2D", "U+0399">>>>,
      <<"U+1F9E", <<"U+1F2E", "U+0399">>>>,
      <<"U+1F9F", <<"U+1F2F", "U+0399">>>>,
      <<"U+1FA0", <<"U+1F68", "U+0399">>>>,
      <<"U+1FA1", <<"U+1F69", "U+0399">>>>,
      <<"U+1FA2", <<"U+1F6A", "U+0399">>>>,
      <<"U+1FA3", <<"U+1F6B", "U+0399">>>>,
      <<"U+1FA4", <<"U+1F6C", "U+0399">>>>,
      <<"U+1FA5", <<"U+1F6D", "U+0399">>>>,
      <<"U+1FA6", <<"U+1F6E", "U+0399">>>>,
      <<"U+1FA7", <<"U+1F6F", "U+0399">>>>,
      <<"U+1FA8", <<"U+1F68", "U+0399">>>>,
      <<"U+1FA9", <<"U+1F69", "U+0399">>>>,
      <<"U+1FAA", <<"U+1F6A", "U+0399">>>>,
      <<"U+1FAB", <<"U+1F6B", "U+0399">>>>,
      <<"U+1FAC", <<"U+1F6C", "U+0399">>>>,
      <<"U+1FAD", <<"U+1F6D", "U+0399">>>>,
      <<"U+1FAE", <<"U+1F6E", "U+0399">>>>,
      <<"U+1FAF", <<"U+1F6F", "U+0399">>>>, <<"U+1FB0", <<"U+1FB8">>>>,
      <<"U+1FB1", <<"U+1FB9">>>>, <<"U+1FB2", <<"U+1FBA", "U+0399">>>>,
      <<"U+1FB3", <<"U+0391", "U+0399">>>>,
      <<"U+1FB4", <<"U+0386", "U+0399">>>>,
      <<"U+1FB6", <<"U+0391", "U+0342">>>>,
      <<"U+1FB7", <<"U+0391", "U+0342", "U+0399">>>>,
      <<"U+1FBC", <<"U+0391", "U+0399">>>>, <<"U+1FBE", <<"U+0399">>>>,
      <<"U+1FC2", <<"U+1FCA", "U+0399">>>>,
      <<"U+1FC3", <<"U+0397", "U+0399">>>>,
      <<"U+1FC4", <<"U+0389", "U+0399">>>>,
      <<"U+1FC6", <<"U+0397", "U+0342">>>>,
      <<"U+1FC7", <<"U+0397", "U+0342", "U+0399">>>>,
      <<"U+1FCC", <<"U+0397", "U+0399">>>>, <<"U+1FD0", <<"U+1FD8">>>>,
      <<"U+1FD1", <<"U+1FD9">>>>,
      <<"U+1FD2", <<"U+0399", "U+0308", "U+0300">>>>,
      <<"U+1FD3", <<"U+0399", "U+0308", "U+0301">>>>,
      <<"U+1FD6", <<"U+0399", "U+0342">>>>,
      <<"U+1FD7", <<"U+0399", "U+0308", "U+0342">>>>,
      <<"U+1FE0", <<"U+1FE8">>>>, <<"U+1FE1", <<"U+1FE9">>>>,
      <<"U+1FE2", <<"U+03A5", "U+0308", "U+0300">>>>,
      <<"U+1FE3", <<"U+03A5", "U+0308", "U+0301">>>>,
      <<"U+1FE4", <<"U+03A1", "U+0313">>>>, <<"U+1FE5", <<"U+1FEC">>>>,
      <<"U+1FE6", <<"U+03A5", "U+0342">>>>,
      <<"U+1FE7", <<"U+03A5", "U+0308", "U+0342">>>>,
      <<"U+1FF2", <<"U+1FFA", "U+0399">>>>,
      <<"U+1FF3", <<"U+03A9", "U+0399">>>>,
      <<"U+1FF4", <<"U+038F", "U+0399">>>>,
      <<"U+1FF6", <<"U+03A9", "U+0342">>>>,
      <<"U+1FF7", <<"U+03A9", "U+0342", "U+0399">>>>,
      <<"U+1FFC", <<"U+03A9", "U+0399">>>>, <<"U+214E", <<"U+2132">>>>,
      <<"U+2170", <<"U+2160">>>>, <<"U+2171", <<"U+2161">>>>,
      <<"U+2172", <<"U+2162">>>>, <<"U+2173", <<"U+2163">>>>,
      <<"U+2174", <<"U+2164">>>>, <<"U+2175", <<"U+2165">>>>,
      <<"U+2176", <<"U+2166">>>>, <<"U+2177", <<"U+2167">>>>,
      <<"U+2178", <<"U+2168">>>>, <<"U+2179", <<"U+2169">>>>,
      <<"U+217A", <<"U+216A">>>>, <<"U+217B", <<"U+216B">>>>,
      <<"U+217C", <<"U+216C">>>>, <<"U+217D", <<"U+216D">>>>,
      <<"U+217E", <<"U+216E">>>>, <<"U+217F", <<"U+216F">>>>,
      <<"U+2184", <<"U+2183">>>>, <<"U+24D0", <<"U+24B6">>>>,
      <<"U+24D1", <<"U+24B7">>>>, <<"U+24D2", <<"U+24B8">>>>,
      <<"U+24D3", <<"U+24B9">>>>, <<"U+24D4", <<"U+24BA">>>>,
      <<"U+24D5", <<"U+24BB">>>>, <<"U+24D6", <<"U+24BC">>>>,
      <<"U+24D7", <<"U+24BD">>>>, <<"U+24D8", <<"U+24BE">>>>,
      <<"U+24D9", <<"U+24BF">>>>, <<"U+24DA", <<"U+24C0">>>>,
      <<"U+24DB", <<"U+24C1">>>>, <<"U+24DC", <<"U+24C2">>>>,
      <<"U+24DD", <<"U+24C3">>>>, <<"U+24DE", <<"U+24C4">>>>,
      <<"U+24DF", <<"U+24C5">>>>, <<"U+24E0", <<"U+24C6">>>>,
      <<"U+24E1", <<"U+24C7">>>>, <<"U+24E2", <<"U+24C8">>>>,
      <<"U+24E3", <<"U+24C9">>>>, <<"U+24E4", <<"U+24CA">>>>,
      <<"U+24E5", <<"U+24CB">>>>, <<"U+24E6", <<"U+24CC">>>>,
      <<"U+24E7", <<"U+24CD">>>>, <<"U+24E8", <<"U+24CE">>>>,
      <<"U+24E9", <<"U+24CF">>>>, <<"U+2C30", <<"U+2C00">>>>,
      <<"U+2C31", <<"U+2C01">>>>, <<"U+2C32", <<"U+2C02">>>>,
      <<"U+2C33", <<"U+2C03">>>>, <<"U+2C34", <<"U+2C04">>>>,
      <<"U+2C35", <<"U+2C05">>>>, <<"U+2C36", <<"U+2C06">>>>,
      <<"U+2C37", <<"U+2C07">>>>, <<"U+2C38", <<"U+2C08">>>>,
      <<"U+2C39", <<"U+2C09">>>>, <<"U+2C3A", <<"U+2C0A">>>>,
      <<"U+2C3B", <<"U+2C0B">>>>, <<"U+2C3C", <<"U+2C0C">>>>,
      <<"U+2C3D", <<"U+2C0D">>>>, <<"U+2C3E", <<"U+2C0E">>>>,
      <<"U+2C3F", <<"U+2C0F">>>>, <<"U+2C40", <<"U+2C10">>>>,
      <<"U+2C41", <<"U+2C11">>>>, <<"U+2C42", <<"U+2C12">>>>,
      <<"U+2C43", <<"U+2C13">>>>, <<"U+2C44", <<"U+2C14">>>>,
      <<"U+2C45", <<"U+2C15">>>>, <<"U+2C46", <<"U+2C16">>>>,
      <<"U+2C47", <<"U+2C17">>>>, <<"U+2C48", <<"U+2C18">>>>,
      <<"U+2C49", <<"U+2C19">>>>, <<"U+2C4A", <<"U+2C1A">>>>,
      <<"U+2C4B", <<"U+2C1B">>>>, <<"U+2C4C", <<"U+2C1C">>>>,
      <<"U+2C4D", <<"U+2C1D">>>>, <<"U+2C4E", <<"U+2C1E">>>>,
      <<"U+2C4F", <<"U+2C1F">>>>, <<"U+2C50", <<"U+2C20">>>>,
      <<"U+2C51", <<"U+2C21">>>>, <<"U+2C52", <<"U+2C22">>>>,
      <<"U+2C53", <<"U+2C23">>>>, <<"U+2C54", <<"U+2C24">>>>,
      <<"U+2C55", <<"U+2C25">>>>, <<"U+2C56", <<"U+2C26">>>>,
      <<"U+2C57", <<"U+2C27">>>>, <<"U+2C58", <<"U+2C28">>>>,
      <<"U+2C59", <<"U+2C29">>>>, <<"U+2C5A", <<"U+2C2A">>>>,
      <<"U+2C5B", <<"U+2C2B">>>>, <<"U+2C5C", <<"U+2C2C">>>>,
      <<"U+2C5D", <<"U+2C2D">>>>, <<"U+2C5E", <<"U+2C2E">>>>,
      <<"U+2C5F", <<"U+2C2F">>>>, <<"U+2C61", <<"U+2C60">>>>,
      <<"U+2C65", <<"U+023A">>>>, <<"U+2C66", <<"U+023E">>>>,
      <<"U+2C68", <<"U+2C67">>>>, <<"U+2C6A", <<"U+2C69">>>>,
      <<"U+2C6C", <<"U+2C6B">>>>, <<"U+2C73", <<"U+2C72">>>>,
      <<"U+2C76", <<"U+2C75">>>>, <<"U+2C81", <<"U+2C80">>>>,
      <<"U+2C83", <<"U+2C82">>>>, <<"U+2C85", <<"U+2C84">>>>,
      <<"U+2C87", <<"U+2C86">>>>, <<"U+2C89", <<"U+2C88">>>>,
      <<"U+2C8B", <<"U+2C8A">>>>, <<"U+2C8D", <<"U+2C8C">>>>,
      <<"U+2C8F", <<"U+2C8E">>>>, <<"U+2C91", <<"U+2C90">>>>,
      <<"U+2C93", <<"U+2C92">>>>, <<"U+2C95", <<"U+2C94">>>>,
      <<"U+2C97", <<"U+2C96">>>>, <<"U+2C99", <<"U+2C98">>>>,
      <<"U+2C9B", <<"U+2C9A">>>>, <<"U+2C9D", <<"U+2C9C">>>>,
      <<"U+2C9F", <<"U+2C9E">>>>, <<"U+2CA1", <<"U+2CA0">>>>,
      <<"U+2CA3", <<"U+2CA2">>>>, <<"U+2CA5", <<"U+2CA4">>>>,
      <<"U+2CA7", <<"U+2CA6">>>>, <<"U+2CA9", <<"U+2CA8">>>>,
      <<"U+2CAB", <<"U+2CAA">>>>, <<"U+2CAD", <<"U+2CAC">>>>,
      <<"U+2CAF", <<"U+2CAE">>>>, <<"U+2CB1", <<"U+2CB0">>>>,
      <<"U+2CB3", <<"U+2CB2">>>>, <<"U+2CB5", <<"U+2CB4">>>>,
      <<"U+2CB7", <<"U+2CB6">>>>, <<"U+2CB9", <<"U+2CB8">>>>,
      <<"U+2CBB", <<"U+2CBA">>>>, <<"U+2CBD", <<"U+2CBC">>>>,
      <<"U+2CBF", <<"U+2CBE">>>>, <<"U+2CC1", <<"U+2CC0">>>>,
      <<"U+2CC3", <<"U+2CC2">>>>, <<"U+2CC5", <<"U+2CC4">>>>,
      <<"U+2CC7", <<"U+2CC6">>>>, <<"U+2CC9", <<"U+2CC8">>>>,
      <<"U+2CCB", <<"U+2CCA">>>>, <<"U+2CCD", <<"U+2CCC">>>>,
      <<"U+2CCF", <<"U+2CCE">>>>, <<"U+2CD1", <<"U+2CD0">>>>,
      <<"U+2CD3", <<"U+2CD2">>>>, <<"U+2CD5", <<"U+2CD4">>>>,
      <<"U+2CD7", <<"U+2CD6">>>>, <<"U+2CD9", <<"U+2CD8">>>>,
      <<"U+2CDB", <<"U+2CDA">>>>, <<"U+2CDD", <<"U+2CDC">>>>,
      <<"U+2CDF", <<"U+2CDE">>>>, <<"U+2CE1", <<"U+2CE0">>>>,
      <<"U+2CE3", <<"U+2CE2">>>>, <<"U+2CEC", <<"U+2CEB">>>>,
      <<"U+2CEE", <<"U+2CED">>>>, <<"U+2CF3", <<"U+2CF2">>>>,
      <<"U+2D00", <<"U+10A0">>>>, <<"U+2D01", <<"U+10A1">>>>,
      <<"U+2D02", <<"U+10A2">>>>, <<"U+2D03", <<"U+10A3">>>>,
      <<"U+2D04", <<"U+10A4">>>>, <<"U+2D05", <<"U+10A5">>>>,
      <<"U+2D06", <<"U+10A6">>>>, <<"U+2D07", <<"U+10A7">>>>,
      <<"U+2D08", <<"U+10A8">>>>, <<"U+2D09", <<"U+10A9">>>>,
      <<"U+2D0A", <<"U+10AA">>>>, <<"U+2D0B", <<"U+10AB">>>>,
      <<"U+2D0C", <<"U+10AC">>>>, <<"U+2D0D", <<"U+10AD">>>>,
      <<"U+2D0E", <<"U+10AE">>>>, <<"U+2D0F", <<"U+10AF">>>>,
      <<"U+2D10", <<"U+10B0">>>>, <<"U+2D11", <<"U+10B1">>>>,
      <<"U+2D12", <<"U+10B2">>>>, <<"U+2D13", <<"U+10B3">>>>,
      <<"U+2D14", <<"U+10B4">>>>, <<"U+2D15", <<"U+10B5">>>>,
      <<"U+2D16", <<"U+10B6">>>>, <<"U+2D17", <<"U+10B7">>>>,
      <<"U+2D18", <<"U+10B8">>>>, <<"U+2D19", <<"U+10B9">>>>,
      <<"U+2D1A", <<"U+10BA">>>>, <<"U+2D1B", <<"U+10BB">>>>,
      <<"U+2D1C", <<"U+10BC">>>>, <<"U+2D1D", <<"U+10BD">>>>,
      <<"U+2D1E", <<"U+10BE">>>>, <<"U+2D1F", <<"U+10BF">>>>,
      <<"U+2D20", <<"U+10C0">>>>, <<"U+2D21", <<"U+10C1">>>>,
      <<"U+2D22", <<"U+10C2">>>>, <<"U+2D23", <<"U+10C3">>>>,
      <<"U+2D24", <<"U+10C4">>>>, <<"U+2D25", <<"U+10C5">>>>,
      <<"U+2D27", <<"U+10C7">>>>, <<"U+2D2D", <<"U+10CD">>>>,
      <<"U+A641", <<"U+A640">>>>, <<"U+A643", <<"U+A642">>>>,
      <<"U+A645", <<"U+A644">>>>, <<"U+A647", <<"U+A646">>>>,
      <<"U+A649", <<"U+A648">>>>, <<"U+A64B", <<"U+A64A">>>>,
      <<"U+A64D", <<"U+A64C">>>>, <<"U+A64F", <<"U+A64E">>>>,
      <<"U+A651", <<"U+A650">>>>, <<"U+A653", <<"U+A652">>>>,
      <<"U+A655", <<"U+A654">>>>, <<"U+A657", <<"U+A656">>>>,
      <<"U+A659", <<"U+A658">>>>, <<"U+A65B", <<"U+A65A">>>>,
      <<"U+A65D", <<"U+A65C">>>>, <<"U+A65F", <<"U+A65E">>>>,
      <<"U+A661", <<"U+A660">>>>, <<"U+A663", <<"U+A662">>>>,
      <<"U+A665", <<"U+A664">>>>, <<"U+A667", <<"U+A666">>>>,
      <<"U+A669", <<"U+A668">>>>, <<"U+A66B", <<"U+A66A">>>>,
      <<"U+A66D", <<"U+A66C">>>>, <<"U+A681", <<"U+A680">>>>,
      <<"U+A683", <<"U+A682">>>>, <<"U+A685", <<"U+A684">>>>,
      <<"U+A687", <<"U+A686">>>>, <<"U+A689", <<"U+A688">>>>,
      <<"U+A68B", <<"U+A68A">>>>, <<"U+A68D", <<"U+A68C">>>>,
      <<"U+A68F", <<"U+A68E">>>>, <<"U+A691", <<"U+A690">>>>,
      <<"U+A693", <<"U+A692">>>>, <<"U+A695", <<"U+A694">>>>,
      <<"U+A697", <<"U+A696">>>>, <<"U+A699", <<"U+A698">>>>,
      <<"U+A69B", <<"U+A69A">>>>, <<"U+A723", <<"U+A722">>>>,
      <<"U+A725", <<"U+A724">>>>, <<"U+A727", <<"U+A726">>>>,
      <<"U+A729", <<"U+A728">>>>, <<"U+A72B", <<"U+A72A">>>>,
      <<"U+A72D", <<"U+A72C">>>>, <<"U+A72F", <<"U+A72E">>>>,
      <<"U+A733", <<"U+A732">>>>, <<"U+A735", <<"U+A734">>>>,
      <<"U+A737", <<"U+A736">>>>, <<"U+A739", <<"U+A738">>>>,
      <<"U+A73B", <<"U+A73A">>>>, <<"U+A73D", <<"U+A73C">>>>,
      <<"U+A73F", <<"U+A73E">>>>, <<"U+A741", <<"U+A740">>>>,
      <<"U+A743", <<"U+A742">>>>, <<"U+A745", <<"U+A744">>>>,
      <<"U+A747", <<"U+A746">>>>, <<"U+A749", <<"U+A748">>>>,
      <<"U+A74B", <<"U+A74A">>>>, <<"U+A74D", <<"U+A74C">>>>,
      <<"U+A74F", <<"U+A74E">>>>, <<"U+A751", <<"U+A750">>>>,
      <<"U+A753", <<"U+A752">>>>, <<"U+A755", <<"U+A754">>>>,
      <<"U+A757", <<"U+A756">>>>, <<"U+A759", <<"U+A758">>>>,
      <<"U+A75B", <<"U+A75A">>>>, <<"U+A75D", <<"U+A75C">>>>,
      <<"U+A75F", <<"U+A75E">>>>, <<"U+A761", <<"U+A760">>>>,
      <<"U+A763", <<"U+A762">>>>, <<"U+A765", <<"U+A764">>>>,
      <<"U+A767", <<"U+A766">>>>, <<"U+A769", <<"U+A768">>>>,
      <<"U+A76B", <<"U+A76A">>>>, <<"U+A76D", <<"U+A76C">>>>,
      <<"U+A76F", <<"U+A76E">>>>, <<"U+A77A", <<"U+A779">>>>,
      <<"U+A77C", <<"U+A77B">>>>, <<"U+A77F", <<"U+A77E">>>>,
      <<"U+A781", <<"U+A780">>>>, <<"U+A783", <<"U+A782">>>>,
      <<"U+A785", <<"U+A784">>>>, <<"U+A787", <<"U+A786">>>>,
      <<"U+A78C", <<"U+A78B">>>>, <<"U+A791", <<"U+A790">>>>,
      <<"U+A793", <<"U+A792">>>>, <<"U+A794", <<"U+A7C4">>>>,
      <<"U+A797", <<"U+A796">>>>, <<"U+A799", <<"U+A798">>>>,
      <<"U+A79B", <<"U+A79A">>>>, <<"U+A79D", <<"U+A79C">>>>,
      <<"U+A79F", <<"U+A79E">>>>, <<"U+A7A1", <<"U+A7A0">>>>,
      <<"U+A7A3", <<"U+A7A2">>>>, <<"U+A7A5", <<"U+A7A4">>>>,
      <<"U+A7A7", <<"U+A7A6">>>>, <<"U+A7A9", <<"U+A7A8">>>>,
      <<"U+A7B5", <<"U+A7B4">>>>, <<"U+A7B7", <<"U+A7B6">>>>,
      <<"U+A7B9", <<"U+A7B8">>>>, <<"U+A7BB", <<"U+A7BA">>>>,
      <<"U+A7BD", <<"U+A7BC">>>>, <<"U+A7BF", <<"U+A7BE">>>>,
      <<"U+A7C1", <<"U+A7C0">>>>, <<"U+A7C3", <<"U+A7C2">>>>,
      <<"U+A7C8", <<"U+A7C7">>>>, <<"U+A7CA", <<"U+A7C9">>>>,
      <<"U+A7D1", <<"U+A7D0">>>>, <<"U+A7D7", <<"U+A7D6">>>>,
      <<"U+A7D9", <<"U+A7D8">>>>, <<"U+A7F6", <<"U+A7F5">>>>,
      <<"U+AB53", <<"U+A7B3">>>>, <<"U+AB70", <<"U+13A0">>>>,
      <<"U+AB71", <<"U+13A1">>>>, <<"U+AB72", <<"U+13A2">>>>,
      <<"U+AB73", <<"U+13A3">>>>, <<"U+AB74", <<"U+13A4">>>>,
      <<"U+AB75", <<"U+13A5">>>>, <<"U+AB76", <<"U+13A6">>>>,
      <<"U+AB77", <<"U+13A7">>>>, <<"U+AB78", <<"U+13A8">>>>,
      <<"U+AB79", <<"U+13A9">>>>, <<"U+AB7A", <<"U+13AA">>>>,
      <<"U+AB7B", <<"U+13AB">>>>, <<"U+AB7C", <<"U+13AC">>>>,
      <<"U+AB7D", <<"U+13AD">>>>, <<"U+AB7E", <<"U+13AE">>>>,
      <<"U+AB7F", <<"U+13AF">>>>, <<"U+AB80", <<"U+13B0">>>>,
      <<"U+AB81", <<"U+13B1">>>>, <<"U+AB82", <<"U+13B2">>>>,
      <<"U+AB83", <<"U+13B3">>>>, <<"U+AB84", <<"U+13B4">>>>,
      <<"U+AB85", <<"U+13B5">>>>, <<"U+AB86", <<"U+13B6">>>>,
      <<"U+AB87", <<"U+13B7">>>>, <<"U+AB88", <<"U+13B8">>>>,
      <<"U+AB89", <<"U+13B9">>>>, <<"U+AB8A", <<"U+13BA">>>>,
      <<"U+AB8B", <<"U+13BB">>>>, <<"U+AB8C", <<"U+13BC">>>>,
      <<"U+AB8D", <<"U+13BD">>>>, <<"U+AB8E", <<"U+13BE">>>>,
      <<"U+AB8F", <<"U+13BF">>>>, <<"U+AB90", <<"U+13C0">>>>,
      <<"U+AB91", <<"U+13C1">>>>, <<"U+AB92", <<"U+13C2">>>>,
      <<"U+AB93", <<"U+13C3">>>>, <<"U+AB94", <<"U+13C4">>>>,
      <<"U+AB95", <<"U+13C5">>>>, <<"U+AB96", <<"U+13C6">>>>,
      <<"U+AB97", <<"U+13C7">>>>, <<"U+AB98", <<"U+13C8">>>>,
      <<"U+AB99", <<"U+13C9">>>>, <<"U+AB9A", <<"U+13CA">>>>,
      <<"U+AB9B", <<"U+13CB">>>>, <<"U+AB9C", <<"U+13CC">>>>,
      <<"U+AB9D", <<"U+13CD">>>>, <<"U+AB9E", <<"U+13CE">>>>,
      <<"U+AB9F", <<"U+13CF">>>>, <<"U+ABA0", <<"U+13D0">>>>,
      <<"U+ABA1", <<"U+13D1">>>>, <<"U+ABA2", <<"U+13D2">>>>,
      <<"U+ABA3", <<"U+13D3">>>>, <<"U+ABA4", <<"U+13D4">>>>,
      <<"U+ABA5", <<"U+13D5">>>>, <<"U+ABA6", <<"U+13D6">>>>,
      <<"U+ABA7", <<"U+13D7">>>>, <<"U+ABA8", <<"U+13D8">>>>,
      <<"U+ABA9", <<"U+13D9">>>>, <<"U+ABAA", <<"U+13DA">>>>,
      <<"U+ABAB", <<"U+13DB">>>>, <<"U+ABAC", <<"U+13DC">>>>,
      <<"U+ABAD", <<"U+13DD">>>>, <<"U+ABAE", <<"U+13DE">>>>,
      <<"U+ABAF", <<"U+13DF">>>>, <<"U+ABB0", <<"U+13E0">>>>,
      <<"U+ABB1", <<"U+13E1">>>>, <<"U+ABB2", <<"U+13E2">>>>,
      <<"U+ABB3", <<"U+13E3">>>>, <<"U+ABB4", <<"U+13E4">>>>,
      <<"U+ABB5", <<"U+13E5">>>>, <<"U+ABB6", <<"U+13E6">>>>,
      <<"U+ABB7", <<"U+13E7">>>>, <<"U+ABB8", <<"U+13E8">>>>,
      <<"U+ABB9", <<"U+13E9">>>>, <<"U+ABBA", <<"U+13EA">>>>,
      <<"U+ABBB", <<"U+13EB">>>>, <<"U+ABBC", <<"U+13EC">>>>,
      <<"U+ABBD", <<"U+13ED">>>>, <<"U+ABBE", <<"U+13EE">>>>,
      <<"U+ABBF", <<"U+13EF">>>>, <<"U+FB00", <<"F", "F">>>>,
      <<"U+FB01", <<"F", "I">>>>, <<"U+FB02", <<"F", "L">>>>,
      <<"U+FB03", <<"F", "F", "I">>>>, <<"U+FB04", <<"F", "F", "L">>>>,
      <<"U+FB05", <<"S", "T">>>>, <<"U+FB06", <<"S", "T">>>>,
      <<"U+FB13", <<"U+0544", "U+0546">>>>,
      <<"U+FB14", <<"U+0544", "U+0535">>>>,
      <<"U+FB15", <<"U+0544", "U+053B">>>>,
      <<"U+FB16", <<"U+054E", "U+0546">>>>,
      <<"U+FB17", <<"U+0544", "U+053D">>>>, <<"U+FF41", <<"U+FF21">>>>,
      <<"U+FF42", <<"U+FF22">>>>, <<"U+FF43", <<"U+FF23">>>>,
      <<"U+FF44", <<"U+FF24">>>>, <<"U+FF45", <<"U+FF25">>>>,
      <<"U+FF46", <<"U+FF26">>>>, <<"U+FF47", <<"U+FF27">>>>,
      <<"U+FF48", <<"U+FF28">>>>, <<"U+FF49", <<"U+FF29">>>>,
      <<"U+FF4A", <<"U+FF2A">>>>, <<"U+FF4B", <<"U+FF2B">>>>,
      <<"U+FF4C", <<"U+FF2C">>>>, <<"U+FF4D", <<"U+FF2D">>>>,
      <<"U+FF4E", <<"U+FF2E">>>>, <<"U+FF4F", <<"U+FF2F">>>>,
      <<"U+FF50", <<"U+FF30">>>>, <<"U+FF51", <<"U+FF31">>>>,
      <<"U+FF52", <<"U+FF32">>>>, <<"U+FF53", <<"U+FF33">>>>,
      <<"U+FF54", <<"U+FF34">>>>, <<"U+FF55", <<"U+FF35">>>>,
      <<"U+FF56", <<"U+FF36">>>>, <<"U+FF57", <<"U+FF37">>>>,
      <<"U+FF58", <<"U+FF38">>>>, <<"U+FF59", <<"U+FF39">>>>,
      <<"U+FF5A", <<"U+FF3A">>>>, <<"U+10428", <<"U+10400">>>>,
      <<"U+10429", <<"U+10401">>>>, <<"U+1042A", <<"U+10402">>>>,
      <<"U+1042B", <<"U+10403">>>>, <<"U+1042C", <<"U+10404">>>>,
      <<"U+1042D", <<"U+10405">>>>, <<"U+1042E", <<"U+10406">>>>,
      <<"U+1042F", <<"U+10407">>>>, <<"U+10430", <<"U+10408">>>>,
      <<"U+10431", <<"U+10409">>>>, <<"U+10432", <<"U+1040A">>>>,
      <<"U+10433", <<"U+1040B">>>>, <<"U+10434", <<"U+1040C">>>>,
      <<"U+10435", <<"U+1040D">>>>, <<"U+10436", <<"U+1040E">>>>,
      <<"U+10437", <<"U+1040F">>>>, <<"U+10438", <<"U+10410">>>>,
      <<"U+10439", <<"U+10411">>>>, <<"U+1043A", <<"U+10412">>>>,
      <<"U+1043B", <<"U+10413">>>>, <<"U+1043C", <<"U+10414">>>>,
      <<"U+1043D", <<"U+10415">>>>, <<"U+1043E", <<"U+10416">>>>,
      <<"U+1043F", <<"U+10417">>>>, <<"U+10440", <<"U+10418">>>>,
      <<"U+10441", <<"U+10419">>>>, <<"U+10442", <<"U+1041A">>>>,
      <<"U+10443", <<"U+1041B">>>>, <<"U+10444", <<"U+1041C">>>>,
      <<"U+10445", <<"U+1041D">>>>, <<"U+10446", <<"U+1041E">>>>,
      <<"U+10447", <<"U+1041F">>>>, <<"U+10448", <<"U+10420">>>>,
      <<"U+10449", <<"U+10421">>>>, <<"U+1044A", <<"U+10422">>>>,
      <<"U+1044B", <<"U+10423">>>>, <<"U+1044C", <<"U+10424">>>>,
      <<"U+1044D", <<"U+10425">>>>, <<"U+1044E", <<"U+10426">>>>,
      <<"U+1044F", <<"U+10427">>>>, <<"U+104D8", <<"U+104B0">>>>,
      <<"U+104D9", <<"U+104B1">>>>, <<"U+104DA", <<"U+104B2">>>>,
      <<"U+104DB", <<"U+104B3">>>>, <<"U+104DC", <<"U+104B4">>>>,
      <<"U+104DD", <<"U+104B5">>>>, <<"U+104DE", <<"U+104B6">>>>,
      <<"U+104DF", <<"U+104B7">>>>, <<"U+104E0", <<"U+104B8">>>>,
      <<"U+104E1", <<"U+104B9">>>>, <<"U+104E2", <<"U+104BA">>>>,
      <<"U+104E3", <<"U+104BB">>>>, <<"U+104E4", <<"U+104BC">>>>,
      <<"U+104E5", <<"U+104BD">>>>, <<"U+104E6", <<"U+104BE">>>>,
      <<"U+104E7", <<"U+104BF">>>>, <<"U+104E8", <<"U+104C0">>>>,
      <<"U+104E9", <<"U+104C1">>>>, <<"U+104EA", <<"U+104C2">>>>,
      <<"U+104EB", <<"U+104C3">>>>, <<"U+104EC", <<"U+104C4">>>>,
      <<"U+104ED", <<"U+104C5">>>>, <<"U+104EE", <<"U+104C6">>>>,
      <<"U+104EF", <<"U+104C7">>>>, <<"U+104F0", <<"U+104C8">>>>,
      <<"U+104F1", <<"U+104C9">>>>, <<"U+104F2", <<"U+104CA">>>>,
      <<"U+104F3", <<"U+104CB">>>>, <<"U+104F4", <<"U+104CC">>>>,
      <<"U+104F5", <<"U+104CD">>>>, <<"U+104F6", <<"U+104CE">>>>,
      <<"U+104F7", <<"U+104CF">>>>, <<"U+104F8", <<"U+104D0">>>>,
      <<"U+104F9", <<"U+104D1">>>>, <<"U+104FA", <<"U+104D2">>>>,
      <<"U+104FB", <<"U+104D3">>>>, <<"U+10597", <<"U+10570">>>>,
      <<"U+10598", <<"U+10571">>>>, <<"U+10599", <<"U+10572">>>>,
      <<"U+1059A", <<"U+10573">>>>, <<"U+1059B", <<"U+10574">>>>,
      <<"U+1059C", <<"U+10575">>>>, <<"U+1059D", <<"U+10576">>>>,
      <<"U+1059E", <<"U+10577">>>>, <<"U+1059F", <<"U+10578">>>>,
      <<"U+105A0", <<"U+10579">>>>, <<"U+105A1", <<"U+1057A">>>>,
      <<"U+105A3", <<"U+1057C">>>>, <<"U+105A4", <<"U+1057D">>>>,
      <<"U+105A5", <<"U+1057E">>>>, <<"U+105A6", <<"U+1057F">>>>,
      <<"U+105A7", <<"U+10580">>>>, <<"U+105A8", <<"U+10581">>>>,
      <<"U+105A9", <<"U+10582">>>>, <<"U+105AA", <<"U+10583">>>>,
      <<"U+105AB", <<"U+10584">>>>, <<"U+105AC", <<"U+10585">>>>,
      <<"U+105AD", <<"U+10586">>>>, <<"U+105AE", <<"U+10587">>>>,
      <<"U+105AF", <<"U+10588">>>>, <<"U+105B0", <<"U+10589">>>>,
      <<"U+105B1", <<"U+1058A">>>>, <<"U+105B3", <<"U+1058C">>>>,
      <<"U+105B4", <<"U+1058D">>>>, <<"U+105B5", <<"U+1058E">>>>,
      <<"U+105B6", <<"U+1058F">>>>, <<"U+105B7", <<"U+10590">>>>,
      <<"U+105B8", <<"U+10591">>>>, <<"U+105B9", <<"U+10592">>>>,
      <<"U+105BB", <<"U+10594">>>>, <<"U+105BC", <<"U+10595">>>>,
      <<"U+10CC0", <<"U+10C80">>>>, <<"U+10CC1", <<"U+10C81">>>>,
      <<"U+10CC2", <<"U+10C82">>>>, <<"U+10CC3", <<"U+10C83">>>>,
      <<"U+10CC4", <<"U+10C84">>>>, <<"U+10CC5", <<"U+10C85">>>>,
      <<"U+10CC6", <<"U+10C86">>>>, <<"U+10CC7", <<"U+10C87">>>>,
      <<"U+10CC8", <<"U+10C88">>>>, <<"U+10CC9", <<"U+10C89">>>>,
      <<"U+10CCA", <<"U+10C8A">>>>, <<"U+10CCB", <<"U+10C8B">>>>,
      <<"U+10CCC", <<"U+10C8C">>>>, <<"U+10CCD", <<"U+10C8D">>>>,
      <<"U+10CCE", <<"U+10C8E">>>>, <<"U+10CCF", <<"U+10C8F">>>>,
      <<"U+10CD0", <<"U+10C90">>>>, <<"U+10CD1", <<"U+10C91">>>>,
      <<"U+10CD2", <<"U+10C92">>>>, <<"U+10CD3", <<"U+10C93">>>>,
      <<"U+10CD4", <<"U+10C94">>>>, <<"U+10CD5", <<"U+10C95">>>>,
      <<"U+10CD6", <<"U+10C96">>>>, <<"U+10CD7", <<"U+10C97">>>>,
      <<"U+10CD8", <<"U+10C98">>>>, <<"U+10CD9", <<"U+10C99">>>>,
      <<"U+10CDA", <<"U+10C9A">>>>, <<"U+10CDB", <<"U+10C9B">>>>,
      <<"U+10CDC", <<"U+10C9C">>>>, <<"U+10CDD", <<"U+10C9D">>>>,
      <<"U+10CDE", <<"U+10C9E">>>>, <<"U+10CDF", <<"U+10C9F">>>>,
      <<"U+10CE0", <<"U+10CA0">>>>, <<"U+10CE1", <<"U+10CA1">>>>,
      <<"U+10CE2", <<"U+10CA2">>>>, <<"U+10CE3", <<"U+10CA3">>>>,
      <<"U+10CE4", <<"U+10CA4">>>>, <<"U+10CE5", <<"U+10CA5">>>>,
      <<"U+10CE6", <<"U+10CA6">>>>, <<"U+10CE7", <<"U+10CA7">>>>,
      <<"U+10CE8", <<"U+10CA8">>>>, <<"U+10CE9", <<"U+10CA9">>>>,
      <<"U+10CEA", <<"U+10CAA">>>>, <<"U+10CEB", <<"U+10CAB">>>>,
      <<"U+10CEC", <<"U+10CAC">>>>, <<"U+10CED", <<"U+10CAD">>>>,
      <<"U+10CEE", <<"U+10CAE">>>>, <<"U+10CEF", <<"U+10CAF">>>>,
      <<"U+10CF0", <<"U+10CB0">>>>, <<"U+10CF1", <<"U+10CB1">>>>,
      <<"U+10CF2", <<"U+10CB2">>>>, <<"U+118C0", <<"U+118A0">>>>,
      <<"U+118C1", <<"U+118A1">>>>, <<"U+118C2", <<"U+118A2">>>>,
      <<"U+118C3", <<"U+118A3">>>>, <<"U+118C4", <<"U+118A4">>>>,
      <<"U+118C5", <<"U+118A5">>>>, <<"U+118C6", <<"U+118A6">>>>,
      <<"U+118C7", <<"U+118A7">>>>, <<"U+118C8", <<"U+118A8">>>>,
      <<"U+118C9", <<"U+118A9">>>>, <<"U+118CA", <<"U+118AA">>>>,
      <<"U+118CB", <<"U+118AB">>>>, <<"U+118CC", <<"U+118AC">>>>,
      <<"U+118CD", <<"U+118AD">>>>, <<"U+118CE", <<"U+118AE">>>>,
      <<"U+118CF", <<"U+118AF">>>>, <<"U+118D0", <<"U+118B0">>>>,
      <<"U+118D1", <<"U+118B1">>>>, <<"U+118D2", <<"U+118B2">>>>,
      <<"U+118D3", <<"U+118B3">>>>, <<"U+118D4", <<"U+118B4">>>>,
      <<"U+118D5", <<"U+118B5">>>>, <<"U+118D6", <<"U+118B6">>>>,
      <<"U+118D7", <<"U+118B7">>>>, <<"U+118D8", <<"U+118B8">>>>,
      <<"U+118D9", <<"U+118B9">>>>, <<"U+118DA", <<"U+118BA">>>>,
      <<"U+118DB", <<"U+118BB">>>>, <<"U+118DC", <<"U+118BC">>>>,
      <<"U+118DD", <<"U+118BD">>>>, <<"U+118DE", <<"U+118BE">>>>,
      <<"U+118DF", <<"U+118BF">>>>, <<"U+16E60", <<"U+16E40">>>>,
      <<"U+16E61", <<"U+16E41">>>>, <<"U+16E62", <<"U+16E42">>>>,
      <<"U+16E63", <<"U+16E43">>>>, <<"U+16E64", <<"U+16E44">>>>,
      <<"U+16E65", <<"U+16E45">>>>, <<"U+16E66", <<"U+16E46">>>>,
      <<"U+16E67", <<"U+16E47">>>>, <<"U+16E68", <<"U+16E48">>>>,
      <<"U+16E69", <<"U+16E49">>>>, <<"U+16E6A", <<"U+16E4A">>>>,
      <<"U+16E6B", <<"U+16E4B">>>>, <<"U+16E6C", <<"U+16E4C">>>>,
      <<"U+16E6D", <<"U+16E4D">>>>, <<"U+16E6E", <<"U+16E4E">>>>,
      <<"U+16E6F", <<"U+16E4F">>>>, <<"U+16E70", <<"U+16E50">>>>,
      <<"U+16E71", <<"U+16E51">>>>, <<"U+16E72", <<"U+16E52">>>>,
      <<"U+16E73", <<"U+16E53">>>>, <<"U+16E74", <<"U+16E54">>>>,
      <<"U+16E75", <<"U+16E55">>>>, <<"U+16E76", <<"U+16E56">>>>,
      <<"U+16E77", <<"U+16E57">>>>, <<"U+16E78", <<"U+16E58">>>>,
      <<"U+16E79", <<"U+16E59">>>>, <<"U+16E7A", <<"U+16E5A">>>>,
      <<"U+16E7B", <<"U+16E5B">>>>, <<"U+16E7C", <<"U+16E5C">>>>,
      <<"U+16E7D", <<"U+16E5D">>>>, <<"U+16E7E", <<"U+16E5E">>>>,
      <<"U+16E7F", <<"U+16E5F">>>>, <<"U+1E922", <<"U+1E900">>>>,
      <<"U+1E923", <<"U+1E901">>>>, <<"U+1E924", <<"U+1E902">>>>,
      <<"U+1E925", <<"U+1E903">>>>, <<"U+1E926", <<"U+1E904">>>>,
      <<"U+1E927", <<"U+1E905">>>>, <<"U+1E928", <<"U+1E906">>>>,
      <<"U+1E929", <<"U+1E907">>>>, <<"U+1E92A", <<"U+1E908">>>>,
      <<"U+1E92B", <<"U+1E909">>>>, <<"U+1E92C", <<"U+1E90A">>>>,
      <<"U+1E92D", <<"U+1E90B">>>>, <<"U+1E92E", <<"U+1E90C">>>>,
      <<"U+1E92F", <<"U+1E90D">>>>, <<"U+1E930", <<"U+1E90E">>>>,
      <<"U+1E931", <<"U+1E90F">>>>, <<"U+1E932", <<"U+1E910">>>>,
      <<"U+1E933", <<"U+1E911">>>>, <<"U+1E934", <<"U+1E912">>>>,
      <<"U+1E935", <<"U+1E913">>>>, <<"U+1E936", <<"U+1E914">>>>,
      <<"U+1E937", <<"U+1E915">>>>, <<"U+1E938", <<"U+1E916">>>>,
      <<"U+1E939", <<"U+1E917">>>>, <<"U+1E93A", <<"U+1E918">>>>,
      <<"U+1E93B", <<"U+1E919">>>>, <<"U+1E93C", <<"U+1E91A">>>>,
      <<"U+1E93D", <<"U+1E91B">>>>, <<"U+1E93E", <<"U+1E91C">>>>,
      <<"U+1E93F", <<"U+1E91D">>>>, <<"U+1E940", <<"U+1E91E">>>>,
      <<"U+1E941", <<"U+1E91F">>>>, <<"U+1E942", <<"U+1E920">>>>,
      <<"U+1E943", <<"U+1E921">>>>
    >>
UpperMap ==
    [c \in {UpperTable[i][1] : i \in DOMAIN UpperTable} |->
        UpperTable[CHOOSE i \in DOMAIN UpperTable : UpperTable[i][1] = c][2]]
UpperChar(c) == IF c \in DOMAIN UpperMap THEN UpperMap[c] ELSE <<c>>
RECURSIVE StrUpper(_)
StrUpper(s) ==
    IF s = <<>> THEN <<>> ELSE UpperChar(Head(s)) \o StrUpper(Tail(s))

\* str.strip(): whitespace removed at both ends, nothing else
RECURSIVE LStrip(_)
LStrip(s) ==
    IF s # <<>> /\ Head(s) \in Whitespace THEN LStrip(Tail(s)) ELSE s
RECURSIVE RStrip(_)
RStrip(s) ==
    IF s # <<>> /\ s[Len(s)] \in Whitespace
    THEN RStrip(SubSeq(s, 1, Len(s) - 1))
    ELSE s
StrStrip(s) == RStrip(LStrip(s))

\* str.startswith(p)
StartsWith(s, p) == Len(s) >= Len(p) /\ SubSeq(s, 1, Len(p)) = p

\* blocked = ["DROP", "DELETE", "INSERT", "UPDATE", "ALTER", "CREATE", "TRUNCATE"]
blocked ==
    << <<"D", "R", "O", "P">>,
       <<"D", "E", "L", "E", "T", "E">>,
       <<"I", "N", "S", "E", "R", "T">>,
       <<"U", "P", "D", "A", "T", "E">>,
       <<"A", "L", "T", "E", "R">>,
       <<"C", "R", "E", "A", "T", "E">>,
       <<"T", "R", "U", "N", "C", "A", "T", "E">> >>

\* "for kw in blocked: if query_upper.startswith(kw)": the first keyword
\* the text begins with, <<>> when it begins with none
FirstBlocked(text) ==
    LET hits == {i \in 1..Len(blocked) : StartsWith(text, blocked[i])}
    IN  IF hits = {} THEN <<>>
        ELSE blocked[CHOOSE i \in hits : \A j \in hits : i <= j]
\* query_upper = query.strip().upper()
StripUpper(query) == StrUpper(StrStrip(query))
BlockedKeyword(query) == FirstBlocked(StripUpper(query))

NoResult == [status |-> "none", kw |-> <<>>]

\* _tool_run_sql(query): the error string for a blocked keyword; else the
\* text goes to loader.query, whose rows are the result when the database
\* runs it and whose exception leaves the tool when it does not
tool_run_sql(query, runs) ==
    IF BlockedKeyword(query) # <<>>
    THEN [status |-> "error", kw |-> BlockedKeyword(query)]
    ELSE IF runs THEN [status |-> "rows", kw |-> <<>>]
    ELSE [status |-> "raised", kw |-> <<>>]

\* run_query(sql): HTTP 400 for a blocked keyword; else the text goes to
\* loader.query, whose records are the result when the database runs it,
\* and HTTP 500 when it raises
run_query(sql, runs) ==
    IF BlockedKeyword(sql) # <<>>
    THEN [status |-> "400", kw |-> BlockedKeyword(sql)]
    ELSE IF runs THEN [status |-> "200", kw |-> <<>>]
    ELSE [status |-> "500", kw |-> <<>>]

\* the texts the database has run, after a call with this text
Executed(before, text, runs) ==
    IF BlockedKeyword(text) = <<>> /\ runs THEN before \cup {text} ELSE before

\* How the database reads a query text: statements separated by ";", each
\* after blanks and comments, keywords in either case of the letters a to z.
SqlUpperChar(c) ==
    IF \E i \in 1..26 : LowerCase[i] = c
    THEN UpperCase[CHOOSE i \in 1..26 : LowerCase[i] = c]
    ELSE c
SqlUpper(s) == [i \in DOMAIN s |-> SqlUpperChar(s[i])]
RECURSIVE AfterComment(_)
AfterComment(s) ==
    IF s = <<>> THEN s
    ELSE IF StartsWith(s, <<"*", "/">>) THEN SubSeq(s, 3, Len(s))
    ELSE AfterComment(Tail(s))
RECURSIVE SkipBlank(_)
SkipBlank(s) ==
    IF s = <<>> THEN s
    ELSE IF Head(s) \in SqlBlank THEN SkipBlank(Tail(s))
    ELSE IF StartsWith(s, <<"/", "*">>)
         THEN SkipBlank(AfterComment(SubSeq(s, 3, Len(s))))
    ELSE s
RECURSIVE Statements(_)
Statements(s) ==
    LET cuts == {i \in 1..Len(s) : s[i] = ";"}
        cut == CHOOSE i \in cuts : \A j \in cuts : i <= j
    IN  IF cuts = {} THEN <<s>>
        ELSE <<SubSeq(s, 1, cut - 1)>> \o Statements(SubSeq(s, cut + 1, Len(s)))
StatementVerb(st) == FirstBlocked(SqlUpper(SkipBlank(st)) \o <<>>)
Destructive(query) ==
    \E i \in 1..Len(Statements(query)) :
        StatementVerb(Statements(query)[i]) # <<>>

QIdle ==
    /\ sq_pc = "start"
    /\ sq_loaded = FALSE
    /\ sq_query = <<>>
    /\ sq_result = NoResult
    /\ sq_executed = {}
    /\ sq_calls = 0
(***************************************************************************)
(* time_series_split: month windows from the first date, else row ratios   *)
(***************************************************************************)
MaxSplitRows == 4

\* A date is <<year, month, day>>.  The last day of January makes the
\* offsets clip: a month later is 29 February, and a month after that
\* 29 March.
SplitDates ==
    {<<2024, 1, 1>>, <<2024, 1, 15>>, <<2024, 1, 31>>, <<2024, 2, 1>>,
     <<2024, 3, 1>>, <<2024, 3, 30>>}
SplitMonths == {<<1, 1, 1>>, <<2, 1, 1>>}
DateLt(a, b) ==
    \/ a[1] < b[1]
    \/ (a[1] = b[1] /\ a[2] < b[2])
    \/ (a[1] = b[1] /\ a[2] = b[2] /\ a[3] < b[3])
DateLe(a, b) == a = b \/ DateLt(a, b)

\* the frames: row i carries its position i, in any order of dates
SplitFrames ==
    UNION {{[i \in 1..n |-> [date |-> ds[i], row |-> i]] :
               ds \in [1..n -> SplitDates]} : n \in 1..MaxSplitRows}

\* the days of a month of the Gregorian calendar
IsLeap(year) == year % 4 = 0 /\ (year % 100 # 0 \/ year % 400 = 0)
DaysInMonth(year, month) ==
    IF month = 2 THEN (IF IsLeap(year) THEN 29 ELSE 28)
    ELSE IF month \in {4, 6, 9, 11} THEN 30
    ELSE 31

\* date + pd.DateOffset(months=k): the month moves on by k, the year with
\* it, and a day past the end of the new month becomes its last day
DateOffsetOf(day, year, month) ==
    <<year, month,
      IF day > DaysInMonth(year, month) THEN DaysInMonth(year, month) ELSE day>>
DateOffsetMonths(date, k) ==
    DateOffsetOf(date[3], (date[1] * 12 + date[2] - 1 + k) \div 12,
                 ((date[1] * 12 + date[2] - 1 + k) % 12) + 1)

\* df.sort_values("date"): ties keep their order for frames this small
RECURSIVE SortValuesDate(_)
SortValuesDate(rows) ==
    IF rows = {} THEN <<>>
    ELSE LET first == CHOOSE r \in rows : \A o \in rows :
                          \/ DateLt(r.date, o.date)
                          \/ (r.date = o.date /\ r.row <= o.row)
         IN  <<first>> \o SortValuesDate(rows \ {first})

\* df[mask]: the rows satisfying the mask, in order
RECURSIVE MaskRows(_, _, _)
MaskRows(df, lo, hi) ==
    IF df = <<>> THEN <<>>
    ELSE (IF DateLe(lo, Head(df).date) /\ DateLt(Head(df).date, hi)
          THEN <<Head(df)>> ELSE <<>>) \o MaskRows(Tail(df), lo, hi)

\* int(x) of a float that is not negative: the whole part
FltIntOf(x) ==
    IF x.e >= 0 THEN BigToInt(BigShl(x.m, x.e)) ELSE BigToInt(BigShr(x.m, -x.e))
FltInt(x) ==
    CHOOSE r \in {FltIntOf(vx) : vx \in {x}} : TRUE

\* int(n * 0.7) and int(n * 0.85), the products in float64: 0.7 is a
\* little below 7/10, and int(90 * 0.7) is 62
TrainIdx(n) ==
    FltInt(FltMul(FltOfInt(n), FltOfRatio(7, 10, Float64), Float64))
ValIdx(n) ==
    FltInt(FltMul(FltOfInt(n), FltOfRatio(85, 100, Float64), Float64))

time_series_split(frame, months) ==
    LET df == SortValuesDate(Range(frame))
        dates == [i \in 1..Len(df) |-> df[i].date]
        min_date == df[1].date
        train_end == DateOffsetMonths(min_date, months[1])
        val_end == DateOffsetMonths(train_end, months[2])
        test_end == DateOffsetMonths(val_end, months[3])
        train == MaskRows(df, min_date, train_end)
        val == MaskRows(df, train_end, val_end)
        test == MaskRows(df, val_end, test_end)
        n == Len(df)
    IN  IF Len(val) = 0 \/ Len(test) = 0
        THEN [train |-> SubSeq(df, 1, TrainIdx(n)),
              val |-> SubSeq(df, TrainIdx(n) + 1, ValIdx(n)),
              test |-> SubSeq(df, ValIdx(n) + 1, n),
              branch |-> "ratio"]
        ELSE [train |-> train, val |-> val, test |-> test, branch |-> "months"]

NoSplit == [train |-> <<>>, val |-> <<>>, test |-> <<>>, branch |-> "none"]

TIdle ==
    /\ ts_pc = "idle"
    /\ ts_df = <<>>
    /\ ts_months = <<0, 0, 0>>
    /\ ts_out = NoSplit
(***************************************************************************)
(* The model registry: load_trained_models and the files it reads          *)
(***************************************************************************)
\* the keys of _models
ModelKeys == {"balanced", "waste_optimized"}
MaxRegCalls == 3
MaxScriptRuns == 2

\* joblib.load succeeds on a file that is ready; a file that is being
\* written exists, and loading it raises
Loadable(files) == {k \in ModelKeys : files[k] = "ready"}

\* "if _models: return _models"
CacheHit(models) == models # {}
\* path.exists()
Exists(files, key) == files[key] # "missing"
\* "try: _models[key] = joblib.load(path) except Exception": the keys of
\* _models after it
LoadInto(models, files, key) ==
    IF files[key] = "ready" THEN models \cup {key} ELSE models

\* predict_multi_day, lines 259-267: [] without models or without the
\* balanced model, else the features are built
PredictGuard(models) ==
    IF models = {} \/ "balanced" \notin models THEN "empty" ELSE "built"

RIdle ==
    /\ reg_file = [k \in ModelKeys |-> "missing"]
    /\ reg_script = "idle"
    /\ reg_pc = "idle"
    /\ reg_runs = 0
    /\ reg_models = {}
    /\ reg_seen = {}
    /\ reg_returned = {}
    /\ reg_rows = "none"
    /\ reg_calls = 0
(***************************************************************************)
(* forecast_ingredients, section 5: stock against the exploded demand      *)
(***************************************************************************)
MaxHorizon == 3
NoDemandDays == 999      \* days_remaining when nothing is consumed

\* days_ahead is an int query parameter without an upper limit
Horizons == (1..MaxHorizon) \cup {7, 1000}
\* demand, stock and threshold of one sku, in tenths
StockInputs ==
    [demand : {0, 9, 10, 21, 30, 40, 60, 100},
     days_ahead : Horizons,
     quantity : {0, 9, 10, 14, 20, 30, 50, 80, 120},
     low_stock_threshold : {0, 20, 60}]

\* days_remaining = current_stock / daily_rate with daily_rate = demand /
\* days_ahead, as the exact fraction <<numerator, denominator>>
DaysRemaining(demand, days, current_stock) ==
    IF demand > 0 THEN <<current_stock * days, demand>> ELSE <<NoDemandDays, 1>>
FewerDays(f, n) == f[1] < n * f[2]

\* days_remaining as the code computes it, for a positive demand: fdemand
\* is the float ingredient_demand.get(sku_id), fstock the float quantity
FltDaysRemaining(fdemand, days, fstock) ==
    FltDiv(fstock, FltDiv(fdemand, FltOfInt(days), Float64), Float64)

\* the exact days_remaining is n days but for what the divisions may lose
DaysNear(in, n) ==
    /\ in.demand > 0
    /\ Abs(in.quantity * in.days_ahead - n * in.demand)
          <= (n * in.demand) \div TieBand

\* days_remaining < n: decided by the exact fraction, and by the floats
\* where the two sides are that close
DaysBelow(in, fdemand, n) ==
    IF DaysNear(in, n)
    THEN FltCmp(FltDaysRemaining(fdemand, in.days_ahead,
                                 FltOfRatio(in.quantity, 10, Float64)),
                FltOfInt(n)) < 0
    ELSE FewerDays(DaysRemaining(in.demand, in.days_ahead, in.quantity), n)

\* lines 455-458
NeedsReorder(in, fdemand) ==
    \/ in.quantity < in.low_stock_threshold
    \/ (in.demand > 0 /\ DaysBelow(in, fdemand, in.days_ahead))

\* lines 460-467
ReorderUrgency(in, fdemand) ==
    IF DaysBelow(in, fdemand, 2) THEN "critical"
    ELSE IF DaysBelow(in, fdemand, in.days_ahead) THEN "soon"
    ELSE IF in.quantity < in.low_stock_threshold THEN "low_stock"
    ELSE "ok"

\* suggested_reorder_qty = round(max(0.0, daily_rate * days_ahead * 1.5 -
\* stock), 2), in twentieths: the exact amount is a whole number of them,
\* which the rounding to hundredths finds again
SuggestedReorderHalves(in) ==
    IF in.demand > 0 /\ 3 * in.demand > 2 * in.quantity
    THEN 3 * in.demand - 2 * in.quantity ELSE 0

\* the comparison for a sku whose demand is the float nearest to in.demand
\* tenths: the forecast of one product on one day
StockRow(in) ==
    [needs_reorder |-> NeedsReorder(in, FltOfRatio(in.demand, 10, Float64)),
     reorder_urgency |-> ReorderUrgency(in, FltOfRatio(in.demand, 10, Float64)),
     suggested_reorder_halves |-> SuggestedReorderHalves(in)]

NoStockInput == [demand |-> 0, days_ahead |-> 1, quantity |-> 0, low_stock_threshold |-> 0]
NoStockRow == [needs_reorder |-> FALSE, reorder_urgency |-> "none", suggested_reorder_halves |-> 0]

KIdle ==
    /\ stk_pc = "idle"
    /\ stk_in = NoStockInput
    /\ stk_row = NoStockRow
(***************************************************************************)
(* chat_with_tools: at most MAX_TOOL_ROUNDS requests with tools            *)
(***************************************************************************)
MAX_TOOL_ROUNDS == 5
MaxToolCalls == 2        \* tool calls in one answer of the model

\* what a request to /chat/completions can end in: an answer asking for n
\* tools, an answer with text, an answer with neither, and no byte for 120
\* seconds, an error status or an unreadable body, which raise
ModelAnswers ==
    {[kind |-> "tool_calls", n |-> n] : n \in 1..MaxToolCalls}
        \cup {[kind |-> k, n |-> 0] : k \in {"content", "empty", "fail"}}

\* httpx.AsyncClient(timeout=120.0) limits the wait for the connection and
\* for each read, not the request: an awaited post ends, or its answer
\* keeps coming without an end.  An awaited tool ends, or it is
\* get_context_signals waiting for such an answer
Awaits(pc) == {pc, pc \o "_endless"}

\* "continue": the for loop takes its next iteration
NextRound(round) == round + 1

\* the texts chat_with_tools returns
ExhaustedText == "I gathered a lot of data but couldn't fully synthesize an answer. Could you ask a more specific question?"
UnableText == "Unable to generate analysis. Please try again."
ContentText == "content"

HIdle ==
    /\ chat_pc = "idle"
    /\ chat_round = 0
    /\ chat_requests = 0
    /\ chat_retries = 0
    /\ chat_pending = 0
    /\ chat_messages = 0
    /\ chat_result = ""
\* everything outside the three first parts, idle
XIdle ==
    /\ CIdle
    /\ OIdle
    /\ PIdle
    /\ GIdle
    /\ LIdle
    /\ EIdle
    /\ QIdle
    /\ TIdle
    /\ RIdle
    /\ KIdle
    /\ HIdle

(***************************************************************************)
(* Bounds and program constants of the ingredient forecast                 *)
(***************************************************************************)
NSku == 3                \* skus in dim_skus
MaxBomRows == 2          \* rows in dim_bill_of_materials
MaxDays == 2             \* largest days_ahead tried
MaxUnmapped == 21        \* forecasted products without a linked sku
UnmappedNameCap == 20    \* unmapped[:20]

Skus == 1..NSku
SkuTypes == {"composite", "normal"}
NoItem == 0

\* Titles 1 and 2 are products that skus may link to; titles from 100 on
\* have no sku.  Even titles from 100 on are rows of dim_items/dim_menu_items
\* (a product id, but no sku); odd ones are in no product table.
LinkableTitles == {1, 2}
UnlinkedTitle(k) == 99 + k
UnmappedCounts == {0, UnmappedNameCap, MaxUnmapped}

\* dim_skus.quantity and low_stock_threshold, in tenths: nothing in stock (or
\* a NULL quantity) and 30.0, against no threshold (or NULL) and 50.0; the
\* threshold is the same for every sku of a table.
StockLevels == {0, 300}
Thresholds == {0, 500}

\* prod_title_to_id.get(title.lower()): the product id, 0 for None
prod_title_to_id(title) ==
    IF title \in LinkableTitles THEN title
    ELSE IF title % 2 = 0 THEN title ELSE 0

\* per-day forecast_balanced of a title, in tenths
DailyForecast(title) ==
    IF title = 1 THEN 250 ELSE IF title = 2 THEN 100 ELSE 10

\* the rows dim_bill_of_materials is drawn from: a two-ingredient product
\* (1 -> 2, 1 -> 3), a second level (2 -> 3) and a back edge (2 -> 1)
BomCandidates ==
    {[parent_sku_id |-> 1, sku_id |-> 2, quantity |-> 1],
     [parent_sku_id |-> 1, sku_id |-> 3, quantity |-> 1],
     [parent_sku_id |-> 2, sku_id |-> 3, quantity |-> 2],
     [parent_sku_id |-> 2, sku_id |-> 1, quantity |-> 1]}

BomTables ==
    UNION {[1..n -> BomCandidates] : n \in 0..MaxBomRows}

(***************************************************************************)
(* forecast_ingredients, sections 1 and 3: product demand and lookup maps  *)
(***************************************************************************)
\* the rows at which an item appears for the first time: the insertion order
\* of the dict product_demand
FirstRows(rs) ==
    {i \in 1..Len(rs) : \A j \in 1..(i - 1) : rs[j].item # rs[i].item}

\* product_demand.get(item, 0) + r["forecast_balanced"] over every row of item
DemandOf(rs, item) ==
    SumSet([i \in 1..Len(rs) |-> rs[i].forecast_balanced],
           {i \in 1..Len(rs) : rs[i].item = item})

RECURSIVE SortedSeq(_)
\* the elements of a finite set of integers, ascending
SortedSeq(S) ==
    IF S = {} THEN <<>>
    ELSE LET m == CHOOSE x \in S : \A y \in S : x <= y
         IN <<m>> \o SortedSeq(S \ {m})

\* for r in multi_results: product_demand[item] = product_demand.get(item, 0)
\* + r["forecast_balanced"]; the result keeps the items in insertion order
SumForecasts(rs) ==
    LET first == SortedSeq(FirstRows(rs))
    IN [k \in 1..Len(first) |->
          [title |-> rs[first[k]].item, demand |-> DemandOf(rs, rs[first[k]].item)]]

\* item_to_skus.get(product_id, []): sku ids in dim_skus row order
item_to_skus(product_id) ==
    SortedSeq({k \in Skus : skuItem[k] # NoItem /\ skuItem[k] = product_id})

\* bom_map[parent]: the (child, qty) rows of a parent, in table order
bom_map(parent) == SelectSeq(bomRows, LAMBDA row : row.parent_sku_id = parent)

\* sku_id in bom_map
InBomMap(sku_id) == \E i \in 1..Len(bomRows) : bomRows[i].parent_sku_id = sku_id

(***************************************************************************)
(* forecast_ingredients, section 4: explode product demand                 *)
(***************************************************************************)
\* the mutant of AddDemand: the contribution overwrites the running total
AddDemand_overwrite(dem, k, x) == (k :> x) @@ dem

\* ingredient_demand[k] = ingredient_demand.get(k, 0) + x
AddDemand(dem, k, x) == (k :> (DictGet(dem, k, 0) + x)) @@ dem

\* ingredient_drivers.setdefault(k, []); append the title if it is not there
AddDriver(drv, k, title) ==
    LET cur == DictGet(drv, k, <<>>) IN
    (k :> (IF title \in Range(cur) THEN cur ELSE Append(cur, title))) @@ drv

RECURSIVE ExplodeEdges(_, _, _, _)
\* for child_sku_id, bom_qty in bom_map[sku_id]: one level, no recursion
ExplodeEdges(st, rows, title, demand) ==
    IF rows = <<>> THEN st
    ELSE LET row == Head(rows) IN
         ExplodeEdges(
            [st EXCEPT !.dem = AddDemand(@, row.sku_id, demand * row.quantity),
                       !.drv = AddDriver(@, row.sku_id, title)],
            Tail(rows), title, demand)

\* the body of "for sku_id in linked_sku_ids"
ExplodeSku(st, sku_id, title, demand) ==
    IF skuType[sku_id] = "composite" /\ InBomMap(sku_id)
    THEN ExplodeEdges(st, bom_map(sku_id), title, demand)
    ELSE [st EXCEPT !.dem = AddDemand(@, sku_id, demand),
                    !.drv = AddDriver(@, sku_id, title)]

RECURSIVE ExplodeSkus(_, _, _, _)
ExplodeSkus(st, sku_ids, title, demand) ==
    IF sku_ids = <<>> THEN st
    ELSE ExplodeSkus(ExplodeSku(st, Head(sku_ids), title, demand),
                     Tail(sku_ids), title, demand)

\* the mutant of IsMappedProduct: a product whose id resolves counts as
\* mapped even when no sku links to it
IsMappedProduct_any_id(title) == prod_title_to_id(title) # 0

\* the two "continue" guards: the title resolves to a product id and that
\* product has at least one linked sku
IsMappedProduct(title) ==
    /\ prod_title_to_id(title) # 0
    /\ item_to_skus(prod_title_to_id(title)) # <<>>

\* the body of "for product_title, demand in product_demand.items()"
ExplodeProduct(st, p) ==
    IF ~IsMappedProduct(p.title) THEN st
    ELSE ExplodeSkus([st EXCEPT !.mapped = @ \cup {p.title}],
                     item_to_skus(prod_title_to_id(p.title)),
                     p.title, p.demand)

RECURSIVE ExplodeProducts(_, _)
ExplodeProducts(st, pd) ==
    IF pd = <<>> THEN st
    ELSE ExplodeProducts(ExplodeProduct(st, Head(pd)), Tail(pd))

EmptyExplosion == [dem |-> <<>>, drv |-> <<>>, mapped |-> {}]

(***************************************************************************)
(* The floats of sections 1 and 4                                          *)
(***************************************************************************)
RECURSIVE FltDemandFrom(_, _, _, _)
\* product_demand[item] as a float: 0 + r["forecast_balanced"] over the
\* rows of item, in the order of the rows
FltDemandFrom(rs, item, i, acc) ==
    IF i > Len(rs) THEN acc
    ELSE CHOOSE r \in {FltDemandFrom(rs, item, i + 1, t) :
                        t \in {IF rs[i].item = item
                               THEN FltAdd(acc, FltOfRatio(rs[i].forecast_balanced,
                                                           10, Float64), Float64)
                               ELSE acc}} : TRUE
FltDemandOf(rs, item) == FltDemandFrom(rs, item, 1, FltZero)

\* what one linked sku of the product `title` adds to ingredient_demand[k]:
\* the <<title, bom_qty>> of its BOM rows with the child k, or <<title, 1>>
\* for the sku k itself when it is not exploded
SkuShares(sku_id, title, k) ==
    IF skuType[sku_id] = "composite" /\ InBomMap(sku_id)
    THEN [i \in 1..Len(SelectSeq(bom_map(sku_id), LAMBDA row : row.sku_id = k)) |->
            <<title, SelectSeq(bom_map(sku_id), LAMBDA row : row.sku_id = k)[i].quantity>>]
    ELSE IF sku_id = k THEN << <<title, 1>> >> ELSE <<>>

RECURSIVE SkusShares(_, _, _)
SkusShares(sku_ids, title, k) ==
    IF sku_ids = <<>> THEN <<>>
    ELSE SkuShares(Head(sku_ids), title, k) \o SkusShares(Tail(sku_ids), title, k)

RECURSIVE DemandShares(_, _)
\* every addition to ingredient_demand[k], in the order of the loops of
\* lines 413-446 over product_demand pd
DemandShares(pd, k) ==
    IF pd = <<>> THEN <<>>
    ELSE (IF IsMappedProduct(Head(pd).title)
          THEN SkusShares(item_to_skus(prod_title_to_id(Head(pd).title)),
                          Head(pd).title, k)
          ELSE <<>>) \o DemandShares(Tail(pd), k)

RECURSIVE FltSharesFrom(_, _, _, _)
\* ingredient_demand.get(k, 0) + demand * bom_qty (or + demand), share by
\* share
FltSharesFrom(rs, shares, i, acc) ==
    IF i > Len(shares) THEN acc
    ELSE CHOOSE r \in {FltSharesFrom(rs, shares, i + 1, t) :
                        t \in {FltAdd(acc, FltMul(FltDemandOf(rs, shares[i][1]),
                                                  FltOfInt(shares[i][2]), Float64),
                                      Float64)}} : TRUE

\* ingredient_demand[k] as a float, from the forecast rows rs and their
\* product_demand pd
FltIngredientDemand(rs, pd, k) ==
    CHOOSE r \in {FltSharesFrom(rs, shares, 1, FltZero) :
                   shares \in {DemandShares(pd, k)}} : TRUE

(***************************************************************************)
(* forecast_ingredients, section 5: the response                           *)
(***************************************************************************)
\* unmapped = [p for p in product_demand if p not in mapped_products]
Unmapped(pd, mapped) ==
    LET keep == SelectSeq(pd, LAMBDA p : p.title \notin mapped)
    IN [i \in 1..Len(keep) |-> keep[i].title]

\* the row of lines 472-486 for the stock comparison `in` of sku k, whose
\* float demand is fdemand
StockFields(k, in, fdemand, drv) ==
    [sku_id |-> k,
     type |-> skuType[k],
     current_stock |-> in.quantity,
     forecasted_demand |-> in.demand,
     low_stock_threshold |-> in.low_stock_threshold,
     needs_reorder |-> NeedsReorder(in, fdemand),
     reorder_urgency |-> ReorderUrgency(in, fdemand),
     suggested_reorder_halves |-> SuggestedReorderHalves(in),
     demand_drivers |-> DictGet(drv, k, <<>>)]

\* the body of "for sku_id, info in sku_map.items()": the stock comparison
\* of lines 451-470 and the row.  Amounts are in tenths, which round(..., 2)
\* leaves as they are; dem holds the exact demands and fdemand is the float
\* ingredient_demand[k], which the comparisons of lines 453-463 read.
IngredientRow(k, days, dem, drv, fdemand) ==
    StockFields(k, [demand |-> DictGet(dem, k, 0),
                    days_ahead |-> days,
                    quantity |-> skuQuantity[k],
                    low_stock_threshold |-> skuThreshold[k]],
                fdemand, drv)

\* results before the sort: one row per sku, in the order of dim_skus, for
\* the forecast rows rs summed to pd and exploded to dem
IngredientRows(days, rs, pd, dem, drv) ==
    [k \in Skus |-> IngredientRow(k, days, dem, drv, FltIngredientDemand(rs, pd, k))]

\* urgency_order.get(x["reorder_urgency"], 4)
urgency_order(urgency) ==
    CASE urgency = "critical" -> 0
      [] urgency = "soon" -> 1
      [] urgency = "low_stock" -> 2
      [] urgency = "ok" -> 3
      [] OTHER -> 4

\* the sort key of line 490 compared as tuples: a comes strictly before b
KeyBefore(a, b) ==
    \/ urgency_order(a.reorder_urgency) < urgency_order(b.reorder_urgency)
    \/ /\ urgency_order(a.reorder_urgency) = urgency_order(b.reorder_urgency)
       /\ a.forecasted_demand > b.forecasted_demand

RECURSIVE InsertByKey(_, _)
\* row goes behind every row that does not come strictly after it
InsertByKey(sorted, row) ==
    IF sorted = <<>> THEN <<row>>
    ELSE IF KeyBefore(row, Head(sorted)) THEN <<row>> \o sorted
    ELSE <<Head(sorted)>> \o InsertByKey(Tail(sorted), row)

RECURSIVE SortFrom(_, _, _)
SortFrom(rows, i, sorted) ==
    IF i > Len(rows) THEN sorted
    ELSE SortFrom(rows, i + 1, InsertByKey(sorted, rows[i]))

\* results.sort(key=...): list.sort is stable, rows with equal keys keep
\* the order of dim_skus
SortByUrgency(rows) == SortFrom(rows, 1, <<>>)

\* the "summary" of the answer
Summary(days, rows, mapped, unmapped) ==
    [days_ahead |-> days,
     total_ingredients |-> Len(rows),
     needs_reorder_count |-> Cardinality({i \in 1..Len(rows) : rows[i].needs_reorder}),
     critical_count |->
        Cardinality({i \in 1..Len(rows) : rows[i].reorder_urgency = "critical"}),
     mapped_products |-> Cardinality(mapped),
     unmapped_products |-> Len(unmapped),
     unmapped_product_names |-> Take(unmapped, UnmappedNameCap)]

(***************************************************************************)
(* The handler as a state machine                                          *)
(***************************************************************************)
NoResponse == [status |-> 0]

\* the forecast rows of one request: every title on every day, day by day
ForecastRows(titles, days) ==
    [i \in 1..(days * Len(titles)) |->
        LET t == titles[((i - 1) % Len(titles)) + 1]
        IN [item |-> t, forecast_balanced |-> DailyForecast(t)]]

BInit ==
    /\ bpc = "start"
    /\ days_ahead \in 1..MaxDays
    /\ \E linked \in SUBSET LinkableTitles, n \in UnmappedCounts :
          multi_results =
             ForecastRows(SortedSeq(linked \cup {UnlinkedTitle(k) : k \in 1..n}),
                          days_ahead)
    /\ skuType \in [Skus -> SkuTypes]
    /\ skuType[NSku] = "normal"
    /\ skuItem \in [Skus -> {NoItem} \cup LinkableTitles]
    /\ skuItem[1] = 1
    /\ skuItem[2] \in {NoItem, 2}
    /\ \A k \in Skus \ {1, 2} : skuItem[k] = NoItem
    /\ skuQuantity \in [Skus -> StockLevels]
    /\ \E t \in Thresholds : skuThreshold = [k \in Skus |-> t]
    /\ bomRows \in BomTables
    /\ product_demand = <<>>
    /\ ingredient_demand = <<>>
    /\ ingredient_drivers = <<>>
    /\ mapped_products = {}
    /\ response = NoResponse
    /\ FIdle
    /\ SIdle
    /\ XIdle

\* section 1: no forecast rows is HTTP 400, else sum them per product
SumProductDemand ==
    /\ bpc = "start"
    /\ IF multi_results = <<>>
       THEN /\ response' = [status |-> 400]
            /\ bpc' = "done"
            /\ UNCHANGED product_demand
       ELSE /\ product_demand' = SumForecasts(multi_results)
            /\ bpc' = "explode"
            /\ UNCHANGED response
    /\ UNCHANGED <<days_ahead, multi_results, skuType, skuItem, skuQuantity,
                   skuThreshold, bomRows,
                   ingredient_demand, ingredient_drivers, mapped_products>>
    /\ UNCHANGED <<fvars, svars, xvars>>

\* section 4
ExplodeAll ==
    /\ bpc = "explode"
    /\ LET st == ExplodeProducts(EmptyExplosion, product_demand) IN
          /\ ingredient_demand' = st.dem
          /\ ingredient_drivers' = st.drv
          /\ mapped_products' = st.mapped
    /\ bpc' = "respond"
    /\ UNCHANGED <<days_ahead, multi_results, skuType, skuItem, skuQuantity,
                   skuThreshold, bomRows,
                   product_demand, response>>
    /\ UNCHANGED <<fvars, svars, xvars>>

\* section 5, the sort and the return
BuildResponse ==
    /\ bpc = "respond"
    /\ LET unmapped == Unmapped(product_demand, mapped_products)
           rows == SortByUrgency(IngredientRows(days_ahead, multi_results,
                                                product_demand,
                                                ingredient_demand,
                                                ingredient_drivers))
       IN  response' =
              [status |-> 200,
               ingredients |-> rows,
               summary |-> Summary(days_ahead, rows, mapped_products, unmapped)]
    /\ bpc' = "done"
    /\ UNCHANGED <<days_ahead, multi_results, skuType, skuItem, skuQuantity,
                   skuThreshold, bomRows,
                   product_demand, ingredient_demand, ingredient_drivers,
                   mapped_products>>
    /\ UNCHANGED <<fvars, svars, xvars>>

BNext == SumProductDemand \/ ExplodeAll \/ BuildResponse

SpecBOM == BInit /\ [][BNext]_vars

\* the ingredient handler's variables while another part is observed
BIdle ==
    /\ bpc = "idle"
    /\ days_ahead = 1
    /\ multi_results = <<>>
    /\ skuType = [k \in Skus |-> "normal"]
    /\ skuItem = [k \in Skus |-> NoItem]
    /\ skuQuantity = [k \in Skus |-> 0]
    /\ skuThreshold = [k \in Skus |-> 0]
    /\ bomRows = <<>>
    /\ product_demand = <<>>
    /\ ingredient_demand = <<>>
    /\ ingredient_drivers = <<>>
    /\ mapped_products = {}
    /\ response = NoResponse

(***************************************************************************)
(* predict_multi_day as a state machine                                    *)
(***************************************************************************)

FInit ==
    /\ fpc = "start"
    /\ \E G \in SUBSET SalesGroups : sales = UNION {GroupRows(g[1], g[2]) : g \in G}
    /\ fmodels \in SUBSET ModelKeys
    /\ shrinkPct \in ShrinkPcts
    /\ rawPreds \in [GroupsOf(sales) -> RegressorPairs]
    /\ "waste_optimized" \notin fmodels =>
          \A g \in GroupsOf(sales) : rawPreds[g].waste = rawPreds[g].balanced
    /\ \E L \in SUBSET ItemsOf(sales) : rnnOut = [item \in L |-> LstmValue(item)]
    /\ fdays \in 1..MaxDays
    /\ latest = <<>>
    /\ balanced_preds = <<>>
    /\ waste_preds = <<>>
    /\ lstm_preds = <<>>
    /\ items_info = <<>>
    /\ results = <<>>
    /\ BIdle
    /\ SIdle
    /\ XIdle

\* lines 259-287: the three early returns, else the latest row per group
FLatest ==
    /\ fpc = "start"
    /\ IF fmodels = {} \/ "balanced" \notin fmodels \/ sales = {}
       THEN /\ fpc' = "done"
            /\ UNCHANGED latest
       ELSE /\ latest' = Latest(sales, rawPreds)
            /\ fpc' = "xgboost"
    /\ UNCHANGED <<sales, fmodels, shrinkPct, rawPreds, rnnOut, fdays,
                   balanced_preds, waste_preds, lstm_preds, items_info, results>>
    /\ UNCHANGED <<bvars, svars, xvars>>

\* lines 289-298: the models predict all rows of latest in one call; when
\* the call raises, the error is logged and [] is returned
FXGBoost ==
    /\ fpc = "xgboost"
    /\ IF PredictRaises(latest, fmodels)
       THEN /\ fpc' = "done"
            /\ UNCHANGED <<balanced_preds, waste_preds>>
       ELSE /\ balanced_preds' = BalancedPreds(latest)
            /\ waste_preds' = WastePreds(latest, BalancedPreds(latest), fmodels,
                                         shrinkPct)
            /\ fpc' = "lstm"
    /\ UNCHANGED <<sales, fmodels, shrinkPct, rawPreds, rnnOut, fdays, latest,
                   lstm_preds, items_info, results>>
    /\ UNCHANGED <<bvars, svars, xvars>>

\* lines 300-312: the dict of predict_items, in fortieths
FLstm ==
    /\ fpc = "lstm"
    /\ lstm_preds' = [item \in DOMAIN rnnOut |-> (PerUnit \div 10) * rnnOut[item]]
    /\ fpc' = "info"
    /\ UNCHANGED <<sales, fmodels, shrinkPct, rawPreds, rnnOut, fdays, latest,
                   balanced_preds, waste_preds, items_info, results>>
    /\ UNCHANGED <<bvars, svars, xvars>>

\* lines 314-361
FItemsInfo ==
    /\ fpc = "info"
    /\ items_info' = [i \in 1..Len(latest) |->
                         ItemInfo(latest[i], balanced_preds[i], waste_preds[i],
                                  lstm_preds)]
    /\ fpc' = "days"
    /\ UNCHANGED <<sales, fmodels, shrinkPct, rawPreds, rnnOut, fdays, latest,
                   balanced_preds, waste_preds, lstm_preds, results>>
    /\ UNCHANGED <<bvars, svars, xvars>>

\* lines 363-397
FResults ==
    /\ fpc = "days"
    /\ results' = GenerateResults(sales, items_info,
                                  [i \in 1..Len(latest) |->
                                      InfoFloats(latest[i], fmodels, shrinkPct,
                                                 rnnOut)],
                                  TargetDate, fdays)
    /\ fpc' = "done"
    /\ UNCHANGED <<sales, fmodels, shrinkPct, rawPreds, rnnOut, fdays, latest,
                   balanced_preds, waste_preds, lstm_preds, items_info>>
    /\ UNCHANGED <<bvars, svars, xvars>>

FNext == FLatest \/ FXGBoost \/ FLstm \/ FItemsInfo \/ FResults

SpecForecast == FInit /\ [][FNext]_vars

(***************************************************************************)
(* The server as a state machine                                           *)
(***************************************************************************)
SInit ==
    /\ loop = 0
    /\ rkind \in [Reqs -> Kinds]
    /\ rpc = [r \in Reqs |-> "dep"]
    /\ rfc = [r \in Reqs |-> 0]
    /\ inst = 0
    /\ obj = [o \in Reqs |-> Untrained]
    /\ disk \in {NoVersion, InitialVersion}
    /\ trainerModel = [r \in Reqs |-> NoVersion]
    /\ loaded = [r \in Reqs |-> NoVersion]
    /\ \E inp \in ServerInputs : pklFiles = inp.pkl /\ histRows = inp.rows
    /\ models_cache = {}
    /\ snap = [r \in Reqs |-> Untrained]
    /\ resp = [r \in Reqs |-> NoAnswer]
    /\ BIdle
    /\ FIdle
    /\ XIdle

\* load_trained_models: the cache when it is not empty, else the files
LoadTrainedModels == IF models_cache # {} THEN models_cache ELSE pklFiles

\* ---- get_forecaster ----

\* line 34, "forecaster" not in _instances: make a new DemandForecaster;
\* else go on to the return
DepCheck(r) ==
    /\ rpc[r] = "dep"
    /\ OnLoop(r) => CanRun(r)
    /\ rpc' = [rpc EXCEPT ![r] = IF inst # 0 THEN "dep_return" ELSE "dep_load"]
    /\ loop' = IF OnLoop(r) THEN AfterStep(r, FALSE) ELSE loop
    /\ UNCHANGED <<rkind, rfc, inst, obj, disk, trainerModel, loaded,
                   pklFiles, models_cache, histRows, snap, resp>>
    /\ UNCHANGED <<bvars, fvars, xvars>>

\* forecaster.load() on the new object: FileNotFoundError is caught, an
\* unfinished file makes joblib.load raise
DepLoad(r) ==
    /\ rpc[r] = "dep_load"
    /\ OnLoop(r) => CanRun(r)
    /\ IF disk = PartialFile
       THEN /\ resp' = [resp EXCEPT ![r] = Answer(500, "error", <<>>)]
            /\ rpc' = [rpc EXCEPT ![r] = "done"]
            /\ loop' = IF OnLoop(r) THEN AfterStep(r, TRUE) ELSE loop
            /\ UNCHANGED obj
       ELSE /\ obj' = [obj EXCEPT ![r] = ModelData(disk)]
            /\ rpc' = [rpc EXCEPT ![r] = "dep_publish"]
            /\ loop' = IF OnLoop(r) THEN AfterStep(r, FALSE) ELSE loop
            /\ UNCHANGED resp
    /\ UNCHANGED <<rkind, rfc, inst, disk, trainerModel, loaded,
                   pklFiles, models_cache, histRows, snap>>
    /\ UNCHANGED <<bvars, fvars, xvars>>

\* line 41, _instances["forecaster"] = forecaster: the store replaces
\* whatever another thread has stored since this thread's check
DepPublish(r) ==
    /\ rpc[r] = "dep_publish"
    /\ OnLoop(r) => CanRun(r)
    /\ inst' = r
    /\ rpc' = [rpc EXCEPT ![r] = "dep_return"]
    /\ loop' = IF OnLoop(r) THEN AfterStep(r, FALSE) ELSE loop
    /\ UNCHANGED <<rkind, rfc, obj, disk, trainerModel, loaded,
                   pklFiles, models_cache, histRows, snap, resp>>
    /\ UNCHANGED <<bvars, fvars, xvars>>

\* line 42, return _instances["forecaster"]: a read of the shared dict of
\* its own, no lock held; the request gets what is stored there now
DepReturn(r) ==
    /\ rpc[r] = "dep_return"
    /\ OnLoop(r) => CanRun(r)
    /\ rfc' = [rfc EXCEPT ![r] = inst]
    /\ rpc' = [rpc EXCEPT ![r] = "ready"]
    /\ loop' = IF OnLoop(r) THEN AfterStep(r, FALSE) ELSE loop
    /\ UNCHANGED <<rkind, inst, obj, disk, trainerModel, loaded,
                   pklFiles, models_cache, histRows, snap, resp>>
    /\ UNCHANGED <<bvars, fvars, xvars>>

\* ---- GET /api/health ----

\* main.py 74-88 after get_forecaster(): get_tool_executor() finds the
\* forecaster stored, load_trained_models() fills the cache when it is
\* empty, and the answer reports forecaster.model is not None
HealthCheck(r) ==
    /\ rpc[r] = "ready" /\ rkind[r].endpoint = "health"
    /\ CanRun(r)
    /\ models_cache' = LoadTrainedModels
    /\ snap' = [snap EXCEPT ![r].model = obj[rfc[r]].model]
    /\ resp' = [resp EXCEPT ![r] = Answer(200, "healthy", <<>>)]
    /\ rpc' = [rpc EXCEPT ![r] = "done"]
    /\ loop' = AfterStep(r, TRUE)
    /\ UNCHANGED <<rkind, rfc, inst, obj, disk, trainerModel, loaded,
                   pklFiles, histRows>>
    /\ UNCHANGED <<bvars, fvars, xvars>>

\* ---- POST /train ----

\* lines 77-85: skipped when trained and not forced, else a ModelTrainer
TrainStart(r) ==
    /\ rpc[r] = "ready" /\ rkind[r].endpoint = "train"
    /\ CanRun(r)
    /\ IF ~rkind[r].force_retrain /\ obj[rfc[r]].model # NoVersion
       THEN /\ resp' = [resp EXCEPT ![r] = Answer(200, "skipped", <<>>)]
            /\ rpc' = [rpc EXCEPT ![r] = "done"]
            /\ loop' = AfterStep(r, TRUE)
       ELSE /\ rpc' = [rpc EXCEPT ![r] = "pipeline"]
            /\ loop' = AfterStep(r, FALSE)
            /\ UNCHANGED resp
    /\ snap' = [snap EXCEPT ![r] = obj[rfc[r]]]
    /\ UNCHANGED <<rkind, rfc, inst, obj, disk, trainerModel, loaded,
                   pklFiles, models_cache, histRows>>
    /\ UNCHANGED <<bvars, fvars, xvars>>

\* run_training_pipeline steps 1-4 (data): an error returns the results so far
TrainPipeline(r) ==
    /\ rpc[r] = "pipeline"
    /\ CanRun(r)
    /\ \E ok \in BOOLEAN :
          rpc' = [rpc EXCEPT ![r] = IF ok THEN "fit" ELSE "reload"]
    /\ loop' = AfterStep(r, FALSE)
    /\ UNCHANGED <<rkind, rfc, inst, obj, disk, trainerModel, loaded,
                   pklFiles, models_cache, histRows, snap, resp>>
    /\ UNCHANGED <<bvars, fvars, xvars>>

\* step 5: the trainer's own forecaster is trained, or the error is returned
TrainFit(r) ==
    /\ rpc[r] = "fit"
    /\ CanRun(r)
    /\ \E ok \in BOOLEAN :
          IF ok
          THEN /\ trainerModel' = [trainerModel EXCEPT ![r] = NewVersion(r)]
               /\ rpc' = [rpc EXCEPT ![r] = "save"]
          ELSE /\ rpc' = [rpc EXCEPT ![r] = "reload"]
               /\ UNCHANGED trainerModel
    /\ loop' = AfterStep(r, FALSE)
    /\ UNCHANGED <<rkind, rfc, inst, obj, disk, loaded,
                   pklFiles, models_cache, histRows, snap, resp>>
    /\ UNCHANGED <<bvars, fvars, xvars>>

\* step 6, forecaster.save(): joblib.dump opens the file for writing; or
\* save() raises before it has touched the file (mkdir, or the open for
\* writing), the file stays as it is and the pipeline records the error
TrainSaveBegin(r) ==
    /\ rpc[r] = "save"
    /\ CanRun(r)
    /\ \E opened \in BOOLEAN :
          IF opened
          THEN /\ disk' = PartialFile
               /\ rpc' = [rpc EXCEPT ![r] = "saving"]
          ELSE /\ rpc' = [rpc EXCEPT ![r] = "reload"]
               /\ UNCHANGED disk
    /\ loop' = AfterStep(r, FALSE)
    /\ UNCHANGED <<rkind, rfc, inst, obj, trainerModel, loaded,
                   pklFiles, models_cache, histRows, snap, resp>>
    /\ UNCHANGED <<bvars, fvars, xvars>>

\* joblib.dump completes, or fails and the error is recorded
TrainSaveEnd(r) ==
    /\ rpc[r] = "saving"
    /\ CanRun(r)
    /\ \E ok \in BOOLEAN :
          disk' = IF ok THEN trainerModel[r] ELSE PartialFile
    /\ rpc' = [rpc EXCEPT ![r] = "reload"]
    /\ loop' = AfterStep(r, FALSE)
    /\ UNCHANGED <<rkind, rfc, inst, obj, trainerModel, loaded,
                   pklFiles, models_cache, histRows, snap, resp>>
    /\ UNCHANGED <<bvars, fvars, xvars>>

\* line 89, forecaster.load(): no file or an unfinished file raises and the
\* handler answers 500; else model_data is read
TrainReload(r) ==
    /\ rpc[r] = "reload"
    /\ CanRun(r)
    /\ IF disk \in {NoVersion, PartialFile}
       THEN /\ resp' = [resp EXCEPT ![r] = Answer(500, "error", <<>>)]
            /\ rpc' = [rpc EXCEPT ![r] = "done"]
            /\ loop' = AfterStep(r, TRUE)
            /\ UNCHANGED loaded
       ELSE /\ loaded' = [loaded EXCEPT ![r] = disk]
            /\ rpc' = [rpc EXCEPT ![r] = "load_model"]
            /\ loop' = AfterStep(r, FALSE)
            /\ UNCHANGED resp
    /\ UNCHANGED <<rkind, rfc, inst, obj, disk, trainerModel,
                   pklFiles, models_cache, histRows, snap>>
    /\ UNCHANGED <<bvars, fvars, xvars>>

\* self.model = model_data["model"]
LoadModel(r) ==
    /\ rpc[r] = "load_model"
    /\ CanRun(r)
    /\ obj' = [obj EXCEPT ![rfc[r]].model = loaded[r]]
    /\ rpc' = [rpc EXCEPT ![r] = "load_columns"]
    /\ loop' = AfterStep(r, FALSE)
    /\ UNCHANGED <<rkind, rfc, inst, disk, trainerModel, loaded,
                   pklFiles, models_cache, histRows, snap, resp>>
    /\ UNCHANGED <<bvars, fvars, xvars>>

\* self.feature_columns = model_data["feature_columns"]
LoadColumns(r) ==
    /\ rpc[r] = "load_columns"
    /\ CanRun(r)
    /\ obj' = [obj EXCEPT ![rfc[r]].feature_columns = loaded[r]]
    /\ rpc' = [rpc EXCEPT ![r] = "load_metrics"]
    /\ loop' = AfterStep(r, FALSE)
    /\ UNCHANGED <<rkind, rfc, inst, disk, trainerModel, loaded,
                   pklFiles, models_cache, histRows, snap, resp>>
    /\ UNCHANGED <<bvars, fvars, xvars>>

\* self.metrics = model_data["metrics"]; then the handler's answer, whose
\* status is results.get("status", "unknown")
LoadMetrics(r) ==
    /\ rpc[r] = "load_metrics"
    /\ CanRun(r)
    /\ obj' = [obj EXCEPT ![rfc[r]].metrics = loaded[r]]
    /\ resp' = [resp EXCEPT ![r] =
                   Answer(200, IF trainerModel[r] # NoVersion THEN "success"
                               ELSE "unknown", <<>>)]
    /\ rpc' = [rpc EXCEPT ![r] = "done"]
    /\ loop' = AfterStep(r, TRUE)
    /\ UNCHANGED <<rkind, rfc, inst, disk, trainerModel, loaded,
                   pklFiles, models_cache, histRows, snap>>
    /\ UNCHANGED <<bvars, fvars, xvars>>

\* ---- GET /model/features ----

\* line 322: forecaster.model is None is HTTP 400
ReadModel(r) ==
    /\ rpc[r] = "ready" /\ rkind[r].endpoint = "features"
    /\ CanRun(r)
    /\ IF obj[rfc[r]].model = NoVersion
       THEN /\ resp' = [resp EXCEPT ![r] = Answer(400, "Model not trained", <<>>)]
            /\ rpc' = [rpc EXCEPT ![r] = "done"]
            /\ loop' = AfterStep(r, TRUE)
            /\ UNCHANGED snap
       ELSE /\ snap' = [snap EXCEPT ![r].model = obj[rfc[r]].model]
            /\ rpc' = [rpc EXCEPT ![r] = "read_columns"]
            /\ loop' = AfterStep(r, FALSE)
            /\ UNCHANGED resp
    /\ UNCHANGED <<rkind, rfc, inst, obj, disk, trainerModel, loaded,
                   pklFiles, models_cache, histRows>>
    /\ UNCHANGED <<bvars, fvars, xvars>>

\* line 325, get_feature_importance: self.feature_columns
ReadColumns(r) ==
    /\ rpc[r] = "read_columns"
    /\ CanRun(r)
    /\ snap' = [snap EXCEPT ![r].feature_columns = obj[rfc[r]].feature_columns]
    /\ rpc' = [rpc EXCEPT ![r] = "read_metrics"]
    /\ loop' = AfterStep(r, FALSE)
    /\ UNCHANGED <<rkind, rfc, inst, obj, disk, trainerModel, loaded,
                   pklFiles, models_cache, histRows, resp>>
    /\ UNCHANGED <<bvars, fvars, xvars>>

\* line 328: forecaster.metrics, and the answer
ReadMetrics(r) ==
    /\ rpc[r] = "read_metrics"
    /\ CanRun(r)
    /\ snap' = [snap EXCEPT ![r].metrics = obj[rfc[r]].metrics]
    /\ resp' = [resp EXCEPT ![r] = Answer(200, "features", <<>>)]
    /\ rpc' = [rpc EXCEPT ![r] = "done"]
    /\ loop' = AfterStep(r, TRUE)
    /\ UNCHANGED <<rkind, rfc, inst, obj, disk, trainerModel, loaded,
                   pklFiles, models_cache, histRows>>
    /\ UNCHANGED <<bvars, fvars, xvars>>

\* ---- POST /forecast ----

\* lines 256-277: the entries made from predict_multi_day's rows
ForecastEntries(rows) ==
    [k \in 1..Len(rows) |->
        [item_title |-> rows[k].item,
         date |-> rows[k].date,
         predicted_quantity |-> rows[k].forecast_balanced,
         lower_bound |-> rows[k].forecast_waste_optimized,
         upper_bound |-> rows[k].forecast_stockout_optimized,
         model_source |-> rows[k].model_source]]

\* what the trained models give for the server's sales, one day ahead
ServerForecast(models) ==
    PredictMultiDay(ServerSales(histRows), models, FallbackShrinkPct,
                    [g \in GroupsOf(ServerSales(histRows)) |->
                        [balanced |-> OtherXgbOutput, waste |-> OtherXgbOutput]],
                    <<>>, 1)

\* lines 297-313, the fallback: HTTP 400 without a model; else a new
\* ModelTrainer, whose own DemandForecaster is untrained: predict raises for
\* the first item with enough history (HTTP 500), and with no such item the
\* answer is an empty list
FallbackAnswer(r) ==
    IF obj[rfc[r]].model = NoVersion THEN Answer(400, "Model not trained", <<>>)
    ELSE IF histRows >= MinHistory THEN Answer(500, "error", <<>>)
    ELSE Answer(200, "forecast", <<>>)

\* generate_forecast, trained = load_trained_models(): a filled cache is
\* returned as it is, else the balanced model file is loaded into it
ForecastLoadBalanced(r) ==
    /\ rpc[r] = "ready" /\ rkind[r].endpoint = "forecast"
    /\ CanRun(r)
    /\ IF models_cache # {}
       THEN /\ rpc' = [rpc EXCEPT ![r] = "predict"]
            /\ UNCHANGED models_cache
       ELSE /\ models_cache' = pklFiles \cap {"balanced"}
            /\ rpc' = [rpc EXCEPT ![r] = "load_waste"]
    /\ loop' = AfterStep(r, FALSE)
    /\ UNCHANGED <<rkind, rfc, inst, obj, disk, trainerModel, loaded,
                   pklFiles, histRows, snap, resp>>
    /\ UNCHANGED <<bvars, fvars, xvars>>

\* load_trained_models, its second assignment: the waste-optimized model
ForecastLoadWaste(r) ==
    /\ rpc[r] = "load_waste"
    /\ CanRun(r)
    /\ models_cache' = models_cache \cup (pklFiles \cap {"waste_optimized"})
    /\ rpc' = [rpc EXCEPT ![r] = "predict"]
    /\ loop' = AfterStep(r, FALSE)
    /\ UNCHANGED <<rkind, rfc, inst, obj, disk, trainerModel, loaded,
                   pklFiles, histRows, snap, resp>>
    /\ UNCHANGED <<bvars, fvars, xvars>>

\* generate_forecast without source="supabase", from "if trained:" on;
\* predict_multi_day calls load_trained_models() again.  No await.
Forecast(r) ==
    /\ rpc[r] = "predict"
    /\ CanRun(r)
    /\ models_cache' = LoadTrainedModels
    /\ resp' = [resp EXCEPT ![r] =
          IF LoadTrainedModels # {} /\ histRows = 0
          THEN Answer(404, "No sales data", <<>>)
          ELSE IF ServerForecast(LoadTrainedModels) # <<>>
          THEN Answer(200, "forecast",
                      ForecastEntries(ServerForecast(LoadTrainedModels)))
          ELSE FallbackAnswer(r)]
    /\ rpc' = [rpc EXCEPT ![r] = "done"]
    /\ loop' = AfterStep(r, TRUE)
    /\ UNCHANGED <<rkind, rfc, inst, obj, disk, trainerModel, loaded,
                   pklFiles, histRows, snap>>
    /\ UNCHANGED <<bvars, fvars, xvars>>

SNext ==
    \E r \in Reqs :
        \/ DepCheck(r) \/ DepLoad(r) \/ DepPublish(r) \/ DepReturn(r)
        \/ HealthCheck(r)
        \/ TrainStart(r) \/ TrainPipeline(r) \/ TrainFit(r)
        \/ TrainSaveBegin(r) \/ TrainSaveEnd(r) \/ TrainReload(r)
        \/ LoadModel(r) \/ LoadColumns(r) \/ LoadMetrics(r)
        \/ ReadModel(r) \/ ReadColumns(r) \/ ReadMetrics(r)
        \/ ForecastLoadBalanced(r) \/ ForecastLoadWaste(r) \/ Forecast(r)

Spec == SInit /\ [][SNext]_vars

(***************************************************************************)
(* The parts that stay idle while one of the later parts is observed       *)
(***************************************************************************)
IdleButC == BIdle /\ FIdle /\ SIdle /\ OIdle /\ PIdle /\ GIdle /\ LIdle /\ EIdle /\ QIdle /\ TIdle /\ RIdle /\ KIdle /\ HIdle
IdleButO == BIdle /\ FIdle /\ SIdle /\ CIdle /\ PIdle /\ GIdle /\ LIdle /\ EIdle /\ QIdle /\ TIdle /\ RIdle /\ KIdle /\ HIdle
IdleButP == BIdle /\ FIdle /\ SIdle /\ CIdle /\ OIdle /\ GIdle /\ LIdle /\ EIdle /\ QIdle /\ TIdle /\ RIdle /\ KIdle /\ HIdle
IdleButG == BIdle /\ FIdle /\ SIdle /\ CIdle /\ OIdle /\ PIdle /\ LIdle /\ EIdle /\ QIdle /\ TIdle /\ RIdle /\ KIdle /\ HIdle
IdleButL == BIdle /\ FIdle /\ SIdle /\ CIdle /\ OIdle /\ PIdle /\ GIdle /\ EIdle /\ QIdle /\ TIdle /\ RIdle /\ KIdle /\ HIdle
IdleButE == BIdle /\ FIdle /\ SIdle /\ CIdle /\ OIdle /\ PIdle /\ GIdle /\ LIdle /\ QIdle /\ TIdle /\ RIdle /\ KIdle /\ HIdle
IdleButQ == BIdle /\ FIdle /\ SIdle /\ CIdle /\ OIdle /\ PIdle /\ GIdle /\ LIdle /\ EIdle /\ TIdle /\ RIdle /\ KIdle /\ HIdle
IdleButT == BIdle /\ FIdle /\ SIdle /\ CIdle /\ OIdle /\ PIdle /\ GIdle /\ LIdle /\ EIdle /\ QIdle /\ RIdle /\ KIdle /\ HIdle
IdleButR == BIdle /\ FIdle /\ SIdle /\ CIdle /\ OIdle /\ PIdle /\ GIdle /\ LIdle /\ EIdle /\ QIdle /\ TIdle /\ KIdle /\ HIdle
IdleButK == BIdle /\ FIdle /\ SIdle /\ CIdle /\ OIdle /\ PIdle /\ GIdle /\ LIdle /\ EIdle /\ QIdle /\ TIdle /\ RIdle /\ HIdle
IdleButH == BIdle /\ FIdle /\ SIdle /\ CIdle /\ OIdle /\ PIdle /\ GIdle /\ LIdle /\ EIdle /\ QIdle /\ TIdle /\ RIdle /\ KIdle

(***************************************************************************)
(* cold_start_forecast and the agent tool as a state machine               *)
(***************************************************************************)
ColdInit ==
    /\ cpc = "start"
    /\ name_words \in BOOLEAN
    /\ category \in BOOLEAN
    /\ kw_df \in ColdFrames
    \* without a keyword the first query takes every item with 5 active days
    /\ (name_words \/ category \/ kw_df # <<>>)
    /\ cat_df \in {<<>>, <<30, 12>>}
    /\ global_row \in GlobalAvgVals
    /\ top_df \in {<<>>, <<80, 30>>}
    /\ cdays \in 1..MaxDays
    /\ base_dow \in 0..6
    /\ similar_df = <<>>
    /\ similarity_method = "none"
    /\ estimated_daily = <<0, 1>>
    /\ cold_response = NoColdAnswer
    /\ tool_result = NoColdAnswer
    /\ IdleButC

\* section 1 (lines 532-610): the keyword query, then the category query
\* when it found nothing and a category was given
ColdFindSimilar ==
    /\ cpc = "start"
    /\ similar_df' = IF kw_df = <<>> /\ category THEN cat_df ELSE kw_df
    /\ cpc' = "similar"
    /\ UNCHANGED <<name_words, category, kw_df, cat_df, global_row, top_df, cdays, base_dow,
                   similarity_method, estimated_daily, cold_response,
                   tool_result>>
    /\ UNCHANGED notC

\* section 2 (lines 613-660): the global fallback, the weighted average and
\* the estimate.  keyword_clauses holds the words of the name and the
\* category
ColdEstimate ==
    /\ cpc = "similar"
    /\ LET df == IF similar_df = <<>> THEN <<global_row>> ELSE similar_df
       IN /\ similar_df' = df
          /\ similarity_method' = IF similar_df = <<>> THEN "global_median"
                                  ELSE IF name_words \/ category THEN "keyword_match"
                                  ELSE "category_match"
          /\ estimated_daily' = EstimatedDaily(df)
    /\ cpc' = "estimated"
    /\ UNCHANGED <<name_words, category, kw_df, cat_df, global_row, top_df, cdays, base_dow,
                   cold_response, tool_result>>
    /\ UNCHANGED notC

\* section 3 (lines 662-715): the per-day forecasts and the answer
ColdRespond ==
    /\ cpc = "estimated"
    /\ cold_response' = ColdResponse(similar_df, similarity_method,
                                     estimated_daily, base_dow, cdays)
    /\ cpc' = "done"
    /\ UNCHANGED <<name_words, category, kw_df, cat_df, global_row, top_df, cdays, base_dow,
                   similar_df, similarity_method, estimated_daily, tool_result>>
    /\ UNCHANGED notC

\* the agent tool on the same tables: keyword rows, else the global top
\* products, else the default of 5.0
ToolEstimateNewProduct ==
    /\ cpc = "start"
    /\ LET df == IF kw_df = <<>> THEN top_df ELSE kw_df
       IN /\ similar_df' = df
          /\ similarity_method' = IF kw_df = <<>> THEN "global_top_products"
                                  ELSE "keyword_similarity"
          /\ tool_result' = ToolResult(df, similarity_method')
    /\ cpc' = "tool_done"
    /\ UNCHANGED <<name_words, category, kw_df, cat_df, global_row, top_df, cdays, base_dow,
                   estimated_daily, cold_response>>
    /\ UNCHANGED notC

ColdNext == ColdFindSimilar \/ ColdEstimate \/ ColdRespond
            \/ ToolEstimateNewProduct

SpecCold == ColdInit /\ [][ColdNext]_vars

(***************************************************************************)
(* calculate_safety_stock, called as test_safety_stock_calculation does    *)
(***************************************************************************)
SafetyInit ==
    /\ ss_calls = <<>>
    /\ IdleButO

\* one call: the arguments and what the function returns
CallSafetyStock ==
    /\ Len(ss_calls) < MaxCalls
    /\ \E a \in SafetyArgs :
          ss_calls' = Append(ss_calls,
              [forecast_std |-> a.forecast_std,
               lead_time_days |-> a.lead_time_days,
               z_score |-> a.z_score,
               result |-> calculate_safety_stock(a.forecast_std,
                                                 a.lead_time_days, a.z_score)])
    /\ UNCHANGED notO

SafetyNext == CallSafetyStock

SpecSafety == SafetyInit /\ [][SafetyNext]_vars

(***************************************************************************)
(* generate_prep_recommendations as a state machine                        *)
(***************************************************************************)
PrepInit ==
    /\ prep_pc = "loop"
    /\ prep_df \in PrepFrames
    /\ prep_z \in ZVals
    /\ prep_lead \in LeadVals
    /\ prep_locals = <<>>
    /\ recommendations = <<>>
    /\ IdleButP

\* lines 64-107: one pass of the loop over the groups
PrepGroup ==
    /\ prep_pc = "loop"
    /\ Len(recommendations) < Len(prep_df)
    /\ LET g == prep_df[Len(recommendations) + 1]
       IN /\ prep_locals' = Append(prep_locals, PrepLocals(g, prep_lead, prep_z))
          /\ recommendations' =
                Append(recommendations, Recommendation(g, prep_lead, prep_z))
    /\ UNCHANGED <<prep_pc, prep_df, prep_z, prep_lead>>
    /\ UNCHANGED notP

\* lines 109-111: the frame of the rows is returned
PrepReturn ==
    /\ prep_pc = "loop"
    /\ Len(recommendations) = Len(prep_df)
    /\ prep_pc' = "done"
    /\ UNCHANGED <<prep_df, prep_z, prep_lead, prep_locals, recommendations>>
    /\ UNCHANGED notP

PrepNext == PrepGroup \/ PrepReturn

SpecPrep == PrepInit /\ [][PrepNext]_vars

(***************************************************************************)
(* get_all_context_signals as a state machine.  A call awaits its four     *)
(* fetches one after the other; a fetch looks its key up, and on a miss    *)
(* sends its request and is resumed when the request has ended.  Calls of  *)
(* two chat requests share the event loop and the cache.                   *)
(***************************************************************************)
SigInit ==
    /\ sig_pc = [c \in Calls |-> "idle"]
    /\ net \in Nets
    /\ world \in Worlds
    /\ lib_installed \in BOOLEAN
    /\ sig_cache = <<>>
    /\ sig_calls = 0
    /\ weather = [c \in Calls |-> WeatherError]
    /\ air_quality = [c \in Calls |-> AirEmpty]
    /\ holidays_data = [c \in Calls |-> "empty"]
    /\ holiday_info = [c \in Calls |-> NoHoliday]
    /\ alerts = [c \in Calls |-> <<>>]
    /\ signals = [c \in Calls |-> NoSignals]
    /\ IdleButG

\* the agent tool calls get_all_context_signals
SigCall(c) ==
    /\ sig_pc[c] = "idle"
    /\ sig_pc' = [sig_pc EXCEPT ![c] = "weather"]
    /\ UNCHANGED <<net, world, lib_installed, sig_cache, sig_calls, weather,
                   air_quality, holidays_data, holiday_info, alerts, signals>>
    /\ UNCHANGED notG

\* an entry of _cache gets older than _CACHE_TTL_SECONDS: _get_cached
\* passes it over from now on
Expire ==
    /\ \E key \in DOMAIN sig_cache :
          sig_cache' = IF DOMAIN sig_cache = {key} THEN <<>>
                       ELSE [k \in DOMAIN sig_cache \ {key} |-> sig_cache[k]]
    /\ UNCHANGED <<sig_pc, net, world, lib_installed, sig_calls, weather,
                   air_quality, holidays_data, holiday_info, alerts, signals>>
    /\ UNCHANGED notG

\* fetch_weather_forecast, lines 50-73: the cached result, or the request
FetchWeather(c) ==
    /\ sig_pc[c] = "weather"
    /\ IF Cached(sig_cache, "weather")
       THEN /\ weather' = [weather EXCEPT ![c] = sig_cache["weather"]]
            /\ sig_pc' = [sig_pc EXCEPT ![c] = "aqi"]
       ELSE /\ sig_pc' = [sig_pc EXCEPT ![c] = "weather_get"]
            /\ UNCHANGED weather
    /\ UNCHANGED <<net, world, lib_installed, sig_cache, sig_calls,
                   air_quality, holidays_data, holiday_info, alerts, signals>>
    /\ UNCHANGED notG

\* lines 73-122: the awaited get has ended; the result is built and
\* cached, or the exception gives {"error": ...}
WeatherAnswered(c) ==
    /\ sig_pc[c] = "weather_get"
    /\ Completes(net["weather"])
    /\ IF Failed(net["weather"])
       THEN /\ weather' = [weather EXCEPT ![c] = WeatherError]
            /\ UNCHANGED sig_cache
       ELSE /\ weather' = [weather EXCEPT ![c] = WeatherResult(world)]
            /\ sig_cache' = SetCached(sig_cache, "weather", WeatherResult(world))
    /\ sig_pc' = [sig_pc EXCEPT ![c] = "aqi"]
    /\ UNCHANGED <<net, world, lib_installed, sig_calls, air_quality,
                   holidays_data, holiday_info, alerts, signals>>
    /\ UNCHANGED notG

\* fetch_air_quality, lines 151-166
FetchAirQuality(c) ==
    /\ sig_pc[c] = "aqi"
    /\ IF Cached(sig_cache, "aqi")
       THEN /\ air_quality' = [air_quality EXCEPT ![c] = sig_cache["aqi"]]
            /\ sig_pc' = [sig_pc EXCEPT ![c] = "holidays"]
       ELSE /\ sig_pc' = [sig_pc EXCEPT ![c] = "aqi_get"]
            /\ UNCHANGED air_quality
    /\ UNCHANGED <<net, world, lib_installed, sig_cache, sig_calls, weather,
                   holidays_data, holiday_info, alerts, signals>>
    /\ UNCHANGED notG

\* lines 166-187
AirQualityAnswered(c) ==
    /\ sig_pc[c] = "aqi_get"
    /\ Completes(net["aqi"])
    /\ IF Failed(net["aqi"])
       THEN /\ air_quality' = [air_quality EXCEPT ![c] = AirEmpty]
            /\ UNCHANGED sig_cache
       ELSE /\ air_quality' = [air_quality EXCEPT ![c] = AirResult]
            /\ sig_cache' = SetCached(sig_cache, "aqi", AirResult)
    /\ sig_pc' = [sig_pc EXCEPT ![c] = "holidays"]
    /\ UNCHANGED <<net, world, lib_installed, sig_calls, weather,
                   holidays_data, holiday_info, alerts, signals>>
    /\ UNCHANGED notG

\* what fetch_holiday_info does from the end of its try block on: the
\* fallback, the entry of the cache whatever the origin of the data, and
\* the processed data
HolidaysStored(c, data, long_weekends) ==
    /\ holiday_info' = [holiday_info EXCEPT ![c] =
           ProcessHolidayData(HolidayData(data, long_weekends, lib_installed, world))]
    /\ sig_cache' = SetCached(sig_cache, "holidays",
                              HolidayData(data, long_weekends, lib_installed, world))
    /\ sig_pc' = [sig_pc EXCEPT ![c] = "meteoalarm"]

\* fetch_holiday_info, lines 230-243: the cached data, or the first request
FetchHolidayInfo(c) ==
    /\ sig_pc[c] = "holidays"
    /\ IF Cached(sig_cache, "holidays")
       THEN /\ holiday_info' = [holiday_info EXCEPT ![c] =
                                  ProcessHolidayData(sig_cache["holidays"])]
            /\ sig_pc' = [sig_pc EXCEPT ![c] = "meteoalarm"]
            /\ UNCHANGED holidays_data
       ELSE /\ sig_pc' = [sig_pc EXCEPT ![c] = "holidays_get"]
            /\ holidays_data' = [holidays_data EXCEPT ![c] = "empty"]
            /\ UNCHANGED holiday_info
    /\ UNCHANGED <<net, world, lib_installed, sig_cache, sig_calls, weather,
                   air_quality, alerts, signals>>
    /\ UNCHANGED notG

\* lines 243-247: the get of the public holidays has ended.  Its answer is
\* read and the long weekends are asked for; an exception ends the try
\* block
HolidaysAnswered(c) ==
    /\ sig_pc[c] = "holidays_get"
    /\ Completes(net["holidays"])
    /\ IF net["holidays"] = "raises"
       THEN /\ HolidaysStored(c, "empty", FALSE)
            /\ UNCHANGED holidays_data
       ELSE /\ holidays_data' = [holidays_data EXCEPT ![c] =
                                   HolidaysAnswer(net["holidays"], world)]
            /\ sig_pc' = [sig_pc EXCEPT ![c] = "long_weekends_get"]
            /\ UNCHANGED <<holiday_info, sig_cache>>
    /\ UNCHANGED <<net, world, lib_installed, sig_calls, weather,
                   air_quality, alerts, signals>>
    /\ UNCHANGED notG

\* lines 247-267: the get of the long weekends has ended
LongWeekendsAnswered(c) ==
    /\ sig_pc[c] = "long_weekends_get"
    /\ Completes(net["long_weekends"])
    /\ HolidaysStored(c, holidays_data[c],
                      LongWeekendsAnswer(net["long_weekends"], world))
    /\ UNCHANGED <<net, world, lib_installed, sig_calls, weather,
                   air_quality, holidays_data, alerts, signals>>
    /\ UNCHANGED notG

\* fetch_weather_alerts, lines 196-203
FetchWeatherAlerts(c) ==
    /\ sig_pc[c] = "meteoalarm"
    /\ IF Cached(sig_cache, "meteoalarm")
       THEN /\ alerts' = [alerts EXCEPT ![c] = sig_cache["meteoalarm"]]
            /\ sig_pc' = [sig_pc EXCEPT ![c] = "build"]
       ELSE /\ sig_pc' = [sig_pc EXCEPT ![c] = "meteoalarm_get"]
            /\ UNCHANGED alerts
    /\ UNCHANGED <<net, world, lib_installed, sig_cache, sig_calls, weather,
                   air_quality, holidays_data, holiday_info, signals>>
    /\ UNCHANGED notG

\* lines 203-221
WeatherAlertsAnswered(c) ==
    /\ sig_pc[c] = "meteoalarm_get"
    /\ Completes(net["meteoalarm"])
    /\ IF Failed(net["meteoalarm"])
       THEN /\ alerts' = [alerts EXCEPT ![c] = <<>>]
            /\ UNCHANGED sig_cache
       ELSE /\ alerts' = [alerts EXCEPT ![c] = AlertsResult(world)]
            /\ sig_cache' = SetCached(sig_cache, "meteoalarm", AlertsResult(world))
    /\ sig_pc' = [sig_pc EXCEPT ![c] = "build"]
    /\ UNCHANGED <<net, world, lib_installed, sig_calls, weather,
                   air_quality, holidays_data, holiday_info, signals>>
    /\ UNCHANGED notG

\* lines 542-566: the local signals, the unified context and its bias are
\* returned
BuildSignals(c) ==
    /\ sig_pc[c] = "build"
    /\ signals' = [signals EXCEPT ![c] =
           AllContextSignals(world, weather[c], air_quality[c],
                             holiday_info[c], alerts[c])]
    /\ sig_calls' = sig_calls + 1
    /\ sig_pc' = [sig_pc EXCEPT ![c] = "done"]
    /\ UNCHANGED <<net, world, lib_installed, sig_cache, weather, air_quality,
                   holidays_data, holiday_info, alerts>>
    /\ UNCHANGED notG

\* the steps of the coroutine of a call
SigStep(c) ==
    \/ FetchWeather(c) \/ WeatherAnswered(c)
    \/ FetchAirQuality(c) \/ AirQualityAnswered(c)
    \/ FetchHolidayInfo(c) \/ HolidaysAnswered(c) \/ LongWeekendsAnswered(c)
    \/ FetchWeatherAlerts(c) \/ WeatherAlertsAnswered(c)
    \/ BuildSignals(c)

SigNext ==
    \/ \E c \in Calls : SigCall(c)
    \/ Expire
    \/ \E c \in Calls : FetchWeather(c)
    \/ \E c \in Calls : WeatherAnswered(c)
    \/ \E c \in Calls : FetchAirQuality(c)
    \/ \E c \in Calls : AirQualityAnswered(c)
    \/ \E c \in Calls : FetchHolidayInfo(c)
    \/ \E c \in Calls : HolidaysAnswered(c)
    \/ \E c \in Calls : LongWeekendsAnswered(c)
    \/ \E c \in Calls : FetchWeatherAlerts(c)
    \/ \E c \in Calls : WeatherAlertsAnswered(c)
    \/ \E c \in Calls : BuildSignals(c)

SpecSignals == SigInit /\ [][SigNext]_vars

\* the event loop resumes a coroutine whose awaited request has ended, and
\* runs a coroutine that is ready
SpecSignalsLive ==
    SigInit /\ [][SigNext]_vars /\ \A c \in Calls : WF_vars(SigStep(c))

(***************************************************************************)
(* Feature construction for training and for inference, then the predict   *)
(* of each model variant on the training frame                             *)
(***************************************************************************)
FeatInit ==
    /\ IdleButL
    /\ fe_pc = "start"
    /\ fe_sales \in FeatureInputs
    /\ fe_model \in RegressorKinds
    /\ train_df = <<>>
    /\ infer_df = <<>>
    /\ fe_preds = NoPredictions

AddLagFeatures ==
    /\ fe_pc = "start"
    /\ train_df' = add_lag_features(fe_sales)
    /\ fe_pc' = "lags"
    /\ UNCHANGED <<fe_sales, fe_model, infer_df, fe_preds>>
    /\ UNCHANGED notL

AddRollingFeatures ==
    /\ fe_pc = "lags"
    /\ train_df' = add_rolling_features(train_df)
    /\ fe_pc' = "rolling"
    /\ UNCHANGED <<fe_sales, fe_model, infer_df, fe_preds>>
    /\ UNCHANGED notL

BuildInferenceFeatures ==
    /\ fe_pc = "rolling"
    /\ infer_df' = build_inference_features(fe_sales)
    /\ fe_pc' = "built"
    /\ UNCHANGED <<fe_sales, fe_model, train_df, fe_preds>>
    /\ UNCHANGED notL

\* XGBoostForecaster.predict(df)
XGBoostForecasterPredict ==
    /\ fe_pc = "built"
    /\ fe_preds.xgboost = <<>>
    /\ fe_preds' = [fe_preds EXCEPT !.xgboost =
            [i \in 1..Len(train_df) |-> XGBPredict(RegressorOutput(fe_model, train_df[i]))]]
    /\ UNCHANGED <<fe_pc, fe_sales, fe_model, train_df, infer_df>>
    /\ UNCHANGED notL

\* DemandForecaster.predict(X)
DemandForecasterPredictAll ==
    /\ fe_pc = "built"
    /\ fe_preds.demand_forecaster = <<>>
    /\ fe_preds' = [fe_preds EXCEPT !.demand_forecaster =
            [i \in 1..Len(train_df) |->
                DemandForecasterPredict(RegressorOutput(fe_model, train_df[i]))]]
    /\ UNCHANGED <<fe_pc, fe_sales, fe_model, train_df, infer_df>>
    /\ UNCHANGED notL

\* MovingAverageModel(window=7).predict(df)
MovingAveragePredictAll ==
    /\ fe_pc = "built"
    /\ fe_preds.moving_average = <<>>
    /\ fe_preds' = [fe_preds EXCEPT !.moving_average =
            [i \in 1..Len(train_df) |-> MovingAveragePredict(train_df[i])]]
    /\ UNCHANGED <<fe_pc, fe_sales, fe_model, train_df, infer_df>>
    /\ UNCHANGED notL

FeatNext ==
    \/ AddLagFeatures
    \/ AddRollingFeatures
    \/ BuildInferenceFeatures
    \/ XGBoostForecasterPredict
    \/ DemandForecasterPredictAll
    \/ MovingAveragePredictAll

SpecFeatures == FeatInit /\ [][FeatNext]_vars

(***************************************************************************)
(* The cost functions applied to a frame of actuals, predictions, prices   *)
(***************************************************************************)
CostInit ==
    /\ IdleButE
    /\ ev_pc = "start"
    /\ ev_df \in EvalFrames
    /\ ev_mult = DefaultMult
    /\ ev_out = NoCost

\* evaluate_predictions(df): the three cost entries of "overall"
EvaluatePredictions ==
    /\ ev_pc = "start"
    /\ ev_out' = EvaluateOverall(ev_df)
    /\ ev_mult' = DefaultMult
    /\ ev_pc' = "evaluate_predictions"
    /\ UNCHANGED ev_df
    /\ UNCHANGED notE

\* profit_oriented_cost_dkk and sustainability_cost_dkk: the total
\* with their multipliers, beside the two costs they are made of
OrientedCost ==
    /\ ev_pc = "start"
    /\ \E mult \in {ProfitMult, SustainabilityMult} :
          /\ ev_mult' = mult
          /\ ev_out' = [EvaluateOverall(ev_df) EXCEPT !.total_business_cost_dkk =
                total_business_cost_dkk(Actuals(ev_df), Predicted(ev_df),
                                        Prices(ev_df), mult)]
    /\ ev_pc' = "oriented_cost"
    /\ UNCHANGED ev_df
    /\ UNCHANGED notE

\* compare_models_business_impact(df, {"model": predicted}): its one row
CompareModels ==
    /\ ev_pc = "start"
    /\ ev_out' = CompareRow(ev_df, Predicted(ev_df))
    /\ ev_mult' = DefaultMult
    /\ ev_pc' = "compare_models"
    /\ UNCHANGED ev_df
    /\ UNCHANGED notE

CostNext == EvaluatePredictions \/ OrientedCost \/ CompareModels

SpecCost == CostInit /\ [][CostNext]_vars

(***************************************************************************)
(* Calls of the run_sql tool and of GET /data/query on one loader          *)
(***************************************************************************)
SqlInit ==
    /\ IdleButQ
    /\ QIdle

\* ToolExecutor._tool_run_sql(query); the database runs the text handed to
\* it or raises
ToolRunSql ==
    /\ sq_calls < MaxSqlCalls
    /\ \E query \in Queries : \E runs \in BOOLEAN :
          /\ sq_query' = query
          /\ sq_result' = tool_run_sql(query, runs)
          /\ sq_executed' = Executed(sq_executed, query, runs)
    /\ sq_loaded' = TRUE
    /\ sq_calls' = sq_calls + 1
    /\ sq_pc' = "run_sql"
    /\ UNCHANGED notQ

\* run_query(sql, limit, loader); the database runs the text handed to it
\* or raises
RunQuery ==
    /\ sq_calls < MaxSqlCalls
    /\ \E sql \in Queries : \E runs \in BOOLEAN :
          /\ sq_query' = sql
          /\ sq_result' = run_query(sql, runs)
          /\ sq_executed' = Executed(sq_executed, sql, runs)
    /\ sq_loaded' = TRUE
    /\ sq_calls' = sq_calls + 1
    /\ sq_pc' = "data_query"
    /\ UNCHANGED notQ

SqlNext == ToolRunSql \/ RunQuery
SpecSql == SqlInit /\ [][SqlNext]_vars

(***************************************************************************)
(* One call of time_series_split on a frame                                *)
(***************************************************************************)
SplitInit ==
    /\ IdleButT
    /\ ts_pc = "start"
    /\ ts_df \in SplitFrames
    /\ ts_months \in SplitMonths
    /\ ts_out = NoSplit

\* time_series_split(df, train_months, val_months, test_months)
TimeSeriesSplit ==
    /\ ts_pc = "start"
    /\ ts_out' = time_series_split(ts_df, ts_months)
    /\ ts_pc' = "split"
    /\ UNCHANGED <<ts_df, ts_months>>
    /\ UNCHANGED notT

SplitNext == TimeSeriesSplit
SpecSplit == SplitInit /\ [][SplitNext]_vars

(***************************************************************************)
(* Forecast requests reading the registry while the files come and go      *)
(***************************************************************************)
RegInit ==
    /\ IdleButR
    /\ reg_file \in [ModelKeys -> {"missing", "ready"}]
    /\ reg_script = "idle"
    /\ reg_pc = "idle"
    /\ reg_runs = 0
    /\ reg_models = {}
    /\ reg_seen = {}
    /\ reg_returned = {}
    /\ reg_rows = "none"
    /\ reg_calls = 0

\* a file that joblib.dump opens for writing is not loadable all through
\* a call that is running
StillSeen(key) == IF reg_pc = "idle" THEN reg_seen ELSE reg_seen \ {key}

\* train_and_save.py, joblib.dump(balanced, BALANCED_MODEL_PATH) begins
DumpBalancedBegin ==
    /\ reg_script = "idle" /\ reg_runs < MaxScriptRuns
    /\ reg_file' = [reg_file EXCEPT !["balanced"] = "partial"]
    /\ reg_script' = "dump_balanced"
    /\ reg_seen' = StillSeen("balanced")
    /\ UNCHANGED <<reg_pc, reg_runs, reg_models, reg_returned, reg_rows, reg_calls>>
    /\ UNCHANGED notR

\* joblib.dump(balanced, BALANCED_MODEL_PATH) returns
DumpBalancedEnd ==
    /\ reg_script = "dump_balanced"
    /\ reg_file' = [reg_file EXCEPT !["balanced"] = "ready"]
    /\ reg_script' = "dumped_balanced"
    /\ UNCHANGED <<reg_pc, reg_runs, reg_models, reg_seen, reg_returned, reg_rows, reg_calls>>
    /\ UNCHANGED notR

\* joblib.dump(waste_opt, WASTE_OPT_MODEL_PATH) begins
DumpWasteBegin ==
    /\ reg_script = "dumped_balanced"
    /\ reg_file' = [reg_file EXCEPT !["waste_optimized"] = "partial"]
    /\ reg_script' = "dump_waste"
    /\ reg_seen' = StillSeen("waste_optimized")
    /\ UNCHANGED <<reg_pc, reg_runs, reg_models, reg_returned, reg_rows, reg_calls>>
    /\ UNCHANGED notR

\* the second dump returns
DumpWasteEnd ==
    /\ reg_script = "dump_waste"
    /\ reg_file' = [reg_file EXCEPT !["waste_optimized"] = "ready"]
    /\ reg_script' = "idle"
    /\ reg_runs' = reg_runs + 1
    /\ UNCHANGED <<reg_pc, reg_models, reg_seen, reg_returned, reg_rows, reg_calls>>
    /\ UNCHANGED notR

\* "return _models" and the two guards of predict_multi_day
Returns(models) ==
    /\ reg_returned' = models
    /\ reg_rows' = PredictGuard(models)
    /\ reg_calls' = reg_calls + 1
    /\ reg_pc' = "idle"

\* predict_multi_day: models = load_trained_models(); a filled cache is
\* returned as it is, an empty one goes on to the files
RegistryCall ==
    /\ reg_pc = "idle" /\ reg_calls < MaxRegCalls
    /\ reg_seen' = Loadable(reg_file)
    /\ IF CacheHit(reg_models)
       THEN Returns(reg_models)
       ELSE /\ reg_pc' = "balanced_exists"
            /\ UNCHANGED <<reg_returned, reg_rows, reg_calls>>
    /\ UNCHANGED <<reg_file, reg_script, reg_runs, reg_models>>
    /\ UNCHANGED notR

\* "if balanced_path.exists():"
BalancedExists ==
    /\ reg_pc = "balanced_exists"
    /\ reg_pc' = IF Exists(reg_file, "balanced") THEN "balanced_load"
                 ELSE "waste_exists"
    /\ UNCHANGED <<reg_file, reg_script, reg_runs, reg_models, reg_seen,
                   reg_returned, reg_rows, reg_calls>>
    /\ UNCHANGED notR

\* _models["balanced"] = joblib.load(balanced_path), or the logged error
BalancedLoad ==
    /\ reg_pc = "balanced_load"
    /\ reg_models' = LoadInto(reg_models, reg_file, "balanced")
    /\ reg_pc' = "waste_exists"
    /\ UNCHANGED <<reg_file, reg_script, reg_runs, reg_seen,
                   reg_returned, reg_rows, reg_calls>>
    /\ UNCHANGED notR

\* "if waste_opt_path.exists():", and "return _models" when it does not
WasteExists ==
    /\ reg_pc = "waste_exists"
    /\ IF Exists(reg_file, "waste_optimized")
       THEN /\ reg_pc' = "waste_load"
            /\ UNCHANGED <<reg_returned, reg_rows, reg_calls>>
       ELSE Returns(reg_models)
    /\ UNCHANGED <<reg_file, reg_script, reg_runs, reg_models, reg_seen>>
    /\ UNCHANGED notR

\* _models["waste_optimized"] = joblib.load(waste_opt_path), or the logged
\* error, and "return _models"
WasteLoad ==
    /\ reg_pc = "waste_load"
    /\ reg_models' = LoadInto(reg_models, reg_file, "waste_optimized")
    /\ Returns(LoadInto(reg_models, reg_file, "waste_optimized"))
    /\ UNCHANGED <<reg_file, reg_script, reg_runs, reg_seen>>
    /\ UNCHANGED notR

RegNext ==
    \/ DumpBalancedBegin \/ DumpBalancedEnd \/ DumpWasteBegin \/ DumpWasteEnd
    \/ RegistryCall \/ BalancedExists \/ BalancedLoad \/ WasteExists \/ WasteLoad
SpecRegistry == RegInit /\ [][RegNext]_vars

(***************************************************************************)
(* The result row of one sku                                               *)
(***************************************************************************)
StockInit ==
    /\ IdleButK
    /\ stk_pc = "start"
    /\ stk_in \in StockInputs
    /\ stk_row = NoStockRow

\* one pass of "for sku_id, info in sku_map.items()"
StockComparison ==
    /\ stk_pc = "start"
    /\ stk_row' = StockRow(stk_in)
    /\ stk_pc' = "row"
    /\ UNCHANGED stk_in
    /\ UNCHANGED notK

StockNext == StockComparison
SpecStock == StockInit /\ [][StockNext]_vars

(***************************************************************************)
(* One call of chat_with_tools, step by step                               *)
(***************************************************************************)
ChatInit ==
    /\ IdleButH
    /\ chat_pc = "loop"
    /\ chat_round = 0
    /\ chat_requests = 0
    /\ chat_retries = 0
    /\ chat_pending = 0
    /\ chat_messages = 1
    /\ chat_result = ""

\* an iteration begins: the request with the tool definitions is sent and
\* awaited.  The count of requests stops one above MAX_TOOL_ROUNDS, which
\* the loop itself never reaches.
ChatRequest ==
    /\ chat_pc = "loop"
    /\ chat_round < MAX_TOOL_ROUNDS
    /\ chat_requests <= MAX_TOOL_ROUNDS
    /\ chat_requests' = chat_requests + 1
    /\ chat_pc' \in Awaits("post")
    /\ UNCHANGED <<chat_round, chat_retries, chat_pending, chat_messages,
                   chat_result>>
    /\ UNCHANGED notH

\* the awaited post has ended: raise_for_status and the branch on the
\* answer, with what follows an answer without tool calls
ChatAnswered ==
    /\ chat_pc = "post"
    /\ \E answer \in ModelAnswers :
          CASE answer.kind = "fail" ->
                  /\ chat_pc' = "raised"
                  /\ UNCHANGED <<chat_pending, chat_messages, chat_result>>
            [] answer.kind = "tool_calls" ->
                  /\ chat_pc' = "tools"
                  /\ chat_pending' = answer.n
                  /\ chat_messages' = chat_messages + 1
                  /\ UNCHANGED chat_result
            [] answer.kind = "content" ->
                  /\ chat_pc' = "returned"
                  /\ chat_result' = ContentText
                  /\ UNCHANGED <<chat_pending, chat_messages>>
            [] answer.kind = "empty" ->
                  /\ chat_pc' = "retry"
                  /\ chat_messages' = chat_messages + 2
                  /\ UNCHANGED <<chat_pending, chat_result>>
    /\ UNCHANGED <<chat_round, chat_requests, chat_retries>>
    /\ UNCHANGED notH

\* the next tool call of the answer: execute_async is awaited; a tool call
\* without "function" or "name" raises KeyError
ExecuteTool ==
    /\ chat_pc = "tools"
    /\ chat_pending > 0
    /\ chat_pc' \in Awaits("tool") \cup {"raised"}
    /\ UNCHANGED <<chat_round, chat_requests, chat_retries, chat_pending,
                   chat_messages, chat_result>>
    /\ UNCHANGED notH

\* execute_async has returned its string, also for a tool that is unknown
\* or raises; the result is appended, unless the tool call has no "id";
\* after the last tool call, "continue"
ToolReturned ==
    /\ chat_pc = "tool"
    /\ \/ /\ chat_pending' = chat_pending - 1
          /\ chat_messages' = chat_messages + 1
          /\ IF chat_pending = 1
             THEN /\ chat_round' = NextRound(chat_round)
                  /\ chat_pc' = "loop"
             ELSE /\ chat_pc' = "tools"
                  /\ UNCHANGED chat_round
       \/ /\ chat_pc' = "raised"
          /\ UNCHANGED <<chat_round, chat_pending, chat_messages>>
    /\ UNCHANGED <<chat_requests, chat_retries, chat_result>>
    /\ UNCHANGED notH

\* the retry without tools after an answer with neither tool calls nor
\* text is sent and awaited
ChatRetry ==
    /\ chat_pc = "retry"
    /\ chat_retries' = chat_retries + 1
    /\ chat_pc' \in Awaits("retry_post")
    /\ UNCHANGED <<chat_round, chat_requests, chat_pending, chat_messages,
                   chat_result>>
    /\ UNCHANGED notH

\* the awaited retry has ended
RetryAnswered ==
    /\ chat_pc = "retry_post"
    /\ \E answer \in {"content", "empty", "fail"} :
          CASE answer = "fail" ->
                  /\ chat_pc' = "raised"
                  /\ UNCHANGED chat_result
            [] answer = "content" ->
                  /\ chat_pc' = "returned"
                  /\ chat_result' = ContentText
            [] answer = "empty" ->
                  /\ chat_pc' = "returned"
                  /\ chat_result' = UnableText
    /\ UNCHANGED <<chat_round, chat_requests, chat_retries, chat_pending,
                   chat_messages>>
    /\ UNCHANGED notH

\* the for loop is exhausted
ChatExhausted ==
    /\ chat_pc = "loop"
    /\ chat_round >= MAX_TOOL_ROUNDS
    /\ chat_pc' = "returned"
    /\ chat_result' = ExhaustedText
    /\ UNCHANGED <<chat_round, chat_requests, chat_retries, chat_pending,
                   chat_messages>>
    /\ UNCHANGED notH

ChatNext ==
    \/ ChatRequest \/ ChatAnswered \/ ExecuteTool \/ ToolReturned
    \/ ChatRetry \/ RetryAnswered \/ ChatExhausted
SpecChat == ChatInit /\ [][ChatNext]_vars

\* the event loop resumes the coroutine when what it awaits has ended
SpecChatLive == ChatInit /\ [][ChatNext]_vars /\ WF_vars(ChatNext)

(***************************************************************************)
(* Properties of the server                                                *)
(***************************************************************************)
\* the positions of train_model from the start of run_training_pipeline to
\* the last assignment of forecaster.load()
TrainingPcs ==
    {"pipeline", "fit", "save", "saving", "reload",
     "load_model", "load_columns", "load_metrics"}

\* the positions at which run_training_pipeline itself executes
PipelinePcs == {"pipeline", "fit", "save", "saving"}

Training == {r \in Reqs : rkind[r].endpoint = "train" /\ rpc[r] \in TrainingPcs}

\* C1: at no moment are two training runs in progress: at most one
\* train_model handler is between the start of its pipeline and the end of
\* its reload, whatever other retrain requests have arrived.
C1_OneTrainingRun == Cardinality(Training) <= 1

\* a forced retrain has arrived and holds its forecaster while another
\* request's training run is executing
C1_RetrainArrivesDuringRun ==
    \E r1, r2 \in Reqs :
        /\ r1 # r2
        /\ rkind[r1].endpoint = "train" /\ rpc[r1] \in PipelinePcs
        /\ rkind[r2] = [endpoint |-> "train", force_retrain |-> TRUE]
        /\ rpc[r2] = "ready"

\* the three parts of a forecaster come from one load
Whole(f) == f.model = f.feature_columns /\ f.feature_columns = f.metrics

\* the forecaster objects a handler can reach
Reachable == {rfc[r] : r \in {q \in Reqs : rfc[q] # 0}} \cup ({inst} \ {0})

\* C2: until a retrain has read the new model file, the forecaster holds
\* the model it held when the retrain started; whenever a handler can start
\* every forecaster it can reach is whole; a reader's forecaster is whole
\* while it reads, and what it has read (model, feature columns, metrics)
\* comes from one load.
C2_NoHalfUpdatedModel ==
    /\ \A r \in Reqs :
          (rkind[r].endpoint = "train" /\ rpc[r] \in PipelinePcs \cup {"reload"})
             => obj[rfc[r]] = snap[r]
    /\ loop = 0 => \A o \in Reachable : Whole(obj[o])
    /\ \A r \in Reqs :
          (rkind[r].endpoint = "features"
             /\ rpc[r] \in {"read_columns", "read_metrics"})
             => Whole(obj[rfc[r]]) /\ obj[rfc[r]].model = snap[r].model
    /\ \A r \in Reqs :
          (rkind[r].endpoint = "features" /\ rpc[r] = "done" /\ resp[r].status = 200)
             => Whole(snap[r])

\* a reader was answered from the model another request's retrain built
C2_SwapSeen ==
    \E r, t \in Reqs :
        /\ r # t
        /\ rkind[r].endpoint = "features" /\ rpc[r] = "done"
        /\ resp[r].status = 200
        /\ rkind[t].endpoint = "train" /\ rpc[t] = "done"
        /\ snap[r] = ModelData(NewVersion(t))

\* C3: with no trained model file, a forecast request that reaches its
\* handler is answered with a non-empty forecast whose rows are all tagged
\* model_source = "fallback".
C3_FallbackForecast ==
    \A r \in Reqs :
        (rkind[r].endpoint = "forecast" /\ rpc[r] = "done" /\ rfc[r] # 0
            /\ pklFiles = {})
           => /\ resp[r].status = 200
              /\ resp[r].rows # <<>>
              /\ \A k \in 1..Len(resp[r].rows) :
                    resp[r].rows[k].model_source = "fallback"

(***************************************************************************)
(* Properties of the ingredient forecast                                   *)
(***************************************************************************)
BDone == bpc = "done" /\ response.status = 200

ForecastTitles == {multi_results[i].item : i \in 1..Len(multi_results)}

\* the demand forecast for a title over the horizon: one row per day
HorizonDemand(t) == days_ahead * DailyForecast(t)

\* the skus linked to the product a title names
LinkedSkus(t) ==
    {k \in Skus : skuItem[k] # NoItem /\ skuItem[k] = prod_title_to_id(t)}

HasBomRows(k) == \E i \in 1..Len(bomRows) : bomRows[i].parent_sku_id = k
IsExploded(k) == skuType[k] = "composite" /\ HasBomRows(k)

\* quantity_per_unit summed over the BOM rows from k to s
EdgeQty(k, s) ==
    SumSet([i \in 1..Len(bomRows) |-> bomRows[i].quantity],
           {i \in 1..Len(bomRows) :
               bomRows[i].parent_sku_id = k /\ bomRows[i].sku_id = s})

\* what title t sends to ingredient s over the BOM rows of its composite skus
BomShare(t, s) ==
    SumSet([k \in Skus |-> HorizonDemand(t) * EdgeQty(k, s)],
           {k \in LinkedSkus(t) : IsExploded(k)})

\* what title t sends to s because s itself is its linked, unexploded sku
DirectShare(t, s) ==
    IF s \in LinkedSkus(t) /\ ~IsExploded(s) THEN HorizonDemand(t) ELSE 0

Children(k) == {bomRows[i].sku_id : i \in {j \in 1..Len(bomRows) : bomRows[j].parent_sku_id = k}}

RECURSIVE Descendants(_, _)
\* the skus reachable from the set S in at most n BOM steps (S excluded
\* unless reached again)
Descendants(S, n) ==
    IF n = 0 THEN {}
    ELSE LET next == UNION {Children(k) : k \in S}
         IN next \cup Descendants(next, n - 1)

OnCycle(k) == k \in Descendants({k}, NSku)
BomAcyclic == \A k \in Skus : ~OnCycle(k)

\* the row of a sku in the answer, wherever the sort has put it
IngredientOf(s) ==
    CHOOSE row \in Range(response.ingredients) : row.sku_id = s

RECURSIVE Received(_, _)
\* the demand a sku receives when demand is passed down every BOM level:
\* the demand of the products linked to it, plus quantity_per_unit times
\* what each of its composite parents receives
Received(s, depth) ==
    SumSet([t \in ForecastTitles |-> HorizonDemand(t)],
           {t \in ForecastTitles : s \in LinkedSkus(t)})
    + (IF depth = 0 THEN 0
       ELSE SumSet([i \in 1..Len(bomRows) |->
                       Received(bomRows[i].parent_sku_id, depth - 1)
                       * bomRows[i].quantity],
                   {i \in 1..Len(bomRows) :
                       bomRows[i].sku_id = s
                       /\ IsExploded(bomRows[i].parent_sku_id)}))

\* C7: in an acyclic BOM the demand of a composite product reaches the raw
\* ingredients of every level: each raw ingredient's total is what it
\* receives when every composite sku passes its received demand on to its
\* children as received * quantity_per_unit.
C7_RecursiveExplosion ==
    (BDone /\ BomAcyclic) =>
        \A s \in Skus :
            ~IsExploded(s) =>
                IngredientOf(s).forecasted_demand = Received(s, NSku)

\* C8: when a BOM cycle can be reached from a composite sku that is exploded
\* for a forecasted product, the answer is not a normal list of ingredient
\* totals: the request is rejected or flagged.
C8_CycleDetected ==
    (bpc = "done" /\
     \E t \in ForecastTitles : \E k \in LinkedSkus(t) :
         IsExploded(k) /\ \E c \in {k} \cup Descendants({k}, NSku) : OnCycle(c))
        => response.status # 200

\* C9 as amended: an ingredient's total is the sum, over the forecasted
\* products, of product demand * quantity_per_unit over every BOM row from
\* the product's exploded composite sku to the ingredient, plus the demand
\* of every product whose linked sku is the ingredient itself.
C9_AdditiveTotals ==
    BDone =>
        \A s \in Skus :
            IngredientOf(s).forecasted_demand =
                SumSet([t \in ForecastTitles |-> BomShare(t, s) + DirectShare(t, s)],
                       ForecastTitles)

\* C9 as claimed: the total is the sum of the BOM-row contributions alone.
C9_BomRowsOnly ==
    BDone =>
        \A s \in Skus :
            IngredientOf(s).forecasted_demand =
                SumSet([t \in ForecastTitles |-> BomShare(t, s)], ForecastTitles)

\* two products drive the same ingredient, one of them over two BOM rows or
\* both over one, and the response is out
C9_SharedIngredientSeen ==
    /\ BDone
    /\ \E s \in Skus :
          /\ Len(IngredientOf(s).demand_drivers) = 2
          /\ \A t \in LinkableTitles : BomShare(t, s) > 0
          /\ IngredientOf(s).forecasted_demand
                = BomShare(1, s) + BomShare(2, s)

UnmappedTitles == {t \in ForecastTitles : LinkedSkus(t) = {}}

\* the position of a title in the forecast: its first row
FirstRow(t) ==
    CHOOSE i \in 1..Len(multi_results) :
        /\ multi_results[i].item = t
        /\ \A j \in 1..(i - 1) : multi_results[j].item # t

\* C10 as amended: a forecasted product without a linked sku drives no
\* ingredient, leaves every ingredient total as it is without that product,
\* and is counted in unmapped_products; it is named in
\* unmapped_product_names exactly when fewer than 20 unmapped products
\* precede it in the forecast.
C10_UnmappedListed ==
    BDone => \A unmapped \in {UnmappedTitles} :
        /\ response.summary.unmapped_products = Cardinality(unmapped)
        /\ response.summary.mapped_products = Cardinality(ForecastTitles \ unmapped)
        /\ \A t \in unmapped :
              /\ \A s \in Skus : t \notin Range(IngredientOf(s).demand_drivers)
              /\ \A first \in {FirstRow(t)} :
                    t \in Range(response.summary.unmapped_product_names)
                       <=> Cardinality({u \in unmapped : FirstRow(u) < first})
                               < UnmappedNameCap
        /\ \A without \in {ExplodeProducts(EmptyExplosion,
                              SelectSeq(product_demand,
                                        LAMBDA p : p.title \notin unmapped)).dem} :
              \A s \in Skus :
                  IngredientOf(s).forecasted_demand = DictGet(without, s, 0)

\* C10 as claimed: every product without a linked sku is named in the list.
C10_AllUnmappedNamed ==
    BDone =>
        \A t \in UnmappedTitles : t \in Range(response.summary.unmapped_product_names)

\* a response that reports unmapped products next to mapped ones that drive
\* ingredient demand
C10_UnmappedSeen ==
    /\ BDone
    /\ response.summary.unmapped_products >= UnmappedNameCap
    /\ response.summary.mapped_products >= 1
    /\ \E s \in Skus : IngredientOf(s).forecasted_demand > 0

(***************************************************************************)
(* Properties of predict_multi_day                                         *)
(***************************************************************************)
\* items_info is built
InfoBuilt == fpc \in {"days", "done"} /\ items_info # <<>>

\* predict_multi_day returned a forecast
FDone == fpc = "done" /\ results # <<>>

VotesOf(info) == Votes(info.base_balanced, info.base_waste, info.base_lstm)

\* e is a median of the votes: at least half of them are <= e and at least
\* half are >= e; with an odd number it is one of them, with two it is
\* their mean
IsMedian(e, votes) ==
    LET n == Len(votes) IN
    /\ 2 * Cardinality({k \in 1..n : votes[k] <= e}) >= n
    /\ 2 * Cardinality({k \in 1..n : votes[k] >= e}) >= n
    /\ IF n = 2 THEN 2 * e = votes[1] + votes[2] ELSE e \in Range(votes)

\* the entry of items_info a result row was made from, and its factor
InfoOf(k) == items_info[((k - 1) % Len(items_info)) + 1]
FactorOf(k) == WeekdayFactor(sales, results[k].item, Weekday(results[k].date))

\* the floats of InfoOf(k) and of FactorOf(k)
FloatsOf(k) ==
    InfoFloats(latest[((k - 1) % Len(items_info)) + 1], fmodels, shrinkPct, rnnOut)
FactorFloatOf(k) == FactorFloat(sales, results[k].item, Weekday(results[k].date))
NumpyFactorOf(k) == FactorIsNumpy(sales, results[k].item, Weekday(results[k].date))

\* the model outputs behind result row k, scaled to its date and rounded
VoteFloat(k, j) ==
    IF j = 1 THEN FloatsOf(k).base_balanced
    ELSE IF j = 2 THEN FloatsOf(k).base_waste
    ELSE FloatsOf(k).base_lstm
ScaledVotes(k) ==
    LET v == VotesOf(InfoOf(k))
    IN [j \in 1..Len(v) |->
            ScaleRound(v[j], FactorOf(k), VoteFloat(k, j), FactorFloatOf(k),
                       NumpyFactorOf(k))]

\* C4: the ensemble estimate of every item is the median of the outputs
\* available for it (balanced and waste-optimized, and the LSTM's when it
\* covered the item) and lies within [min(votes), max(votes)]; on every
\* forecast date the returned estimate lies within the range of the scaled
\* votes and, with three votes, is their median.
C4_EnsembleIsMedian ==
    /\ InfoBuilt =>
          \A i \in 1..Len(items_info) :
              /\ IsMedian(items_info[i].base_ensemble, VotesOf(items_info[i]))
              /\ items_info[i].base_ensemble >= MinOf(Range(VotesOf(items_info[i])))
              /\ items_info[i].base_ensemble <= MaxOf(Range(VotesOf(items_info[i])))
              /\ Len(VotesOf(items_info[i])) =
                    (IF items_info[i].item \in DOMAIN rnnOut THEN 3 ELSE 2)
    /\ FDone =>
          \A k \in 1..Len(results) : \A sv \in {ScaledVotes(k)} :
              /\ results[k].forecast_balanced >= MinOf(Range(sv))
              /\ results[k].forecast_balanced <= MaxOf(Range(sv))
              /\ Len(sv) = 3 =>
                    /\ IsMedian(results[k].forecast_balanced, sv)
                    /\ sv = <<results[k].forecast_xgboost,
                               results[k].forecast_waste_optimized,
                               results[k].forecast_lstm>>

\* a forecast in which one item's median is the LSTM's vote, strictly
\* between the other two, and another row has two votes only
C4_MedianSeen ==
    /\ FDone
    /\ \E i \in 1..Len(items_info) :
          /\ items_info[i].base_lstm # None
          /\ items_info[i].base_waste < items_info[i].base_lstm
          /\ items_info[i].base_lstm < items_info[i].base_balanced
          /\ items_info[i].base_ensemble = items_info[i].base_lstm
    /\ \E i \in 1..Len(items_info) :
          /\ items_info[i].base_lstm = None
          /\ items_info[i].base_waste < items_info[i].base_ensemble
          /\ items_info[i].base_ensemble < items_info[i].base_balanced

\* C5: with a shrink strictly between 0 and 1 the waste-optimized estimate
\* never exceeds the balanced estimate of the same item, nor, on any
\* forecast date, the returned balanced figures (the scaled balanced
\* estimate and the figure reported as forecast_balanced); a balanced
\* estimate of 100 with shrink 0.85 gives a waste-optimized estimate of 85.
C5_WasteAtMostBalanced ==
    /\ WastePredict(100, FallbackShrinkPct) = 85
    /\ (InfoBuilt /\ shrinkPct \in 1..99) =>
          \A i \in 1..Len(items_info) :
              /\ items_info[i].base_waste <= items_info[i].base_balanced
              /\ ("waste_optimized" \in fmodels
                    /\ shrinkPct = FallbackShrinkPct
                    /\ items_info[i].base_balanced = 100 * PerUnit)
                 => items_info[i].base_waste = 85 * PerUnit
    /\ (FDone /\ shrinkPct \in 1..99) =>
          \A k \in 1..Len(results) :
              /\ results[k].forecast_waste_optimized
                    <= ScaleRound(InfoOf(k).base_balanced, FactorOf(k),
                                  FloatsOf(k).base_balanced, FactorFloatOf(k),
                                  NumpyFactorOf(k))
              /\ results[k].forecast_waste_optimized <= results[k].forecast_balanced

\* the result rows of an item
RowsOfItem(item) == {k \in 1..Len(results) : results[k].item = item}

\* C6: with the balanced model loaded, a forecast over N days holds for
\* every item of the sales history exactly N rows, one for each of the N
\* dates from the target date on.
C6_ExactlyNPoints ==
    (fpc = "done" /\ "balanced" \in fmodels) =>
        \A item \in ItemsOf(sales) :
            /\ Cardinality(RowsOfItem(item)) = fdays
            /\ {results[k].date : k \in RowsOfItem(item)}
                  = TargetDate..(TargetDate + fdays - 1)

(***************************************************************************)
(* Properties of the cold-start estimate                                   *)
(***************************************************************************)
\* C11: once the route has its estimate, the point estimate is at most the
\* unweighted average of avg_daily over the comparable items it used.
C11_EstimateAtMostUnweightedAvg ==
    cpc \in {"estimated", "done"} =>
        estimated_daily[1] * UnweightedAvg(similar_df)[2]
            <= UnweightedAvg(similar_df)[1] * estimated_daily[2]

(***************************************************************************)
(* Properties of calculate_safety_stock                                    *)
(***************************************************************************)
\* C20 as stated: a call with std = 0 returns 0 whatever the lead time and
\* z-score; of two calls that differ only in std the one with the larger
\* std returns strictly more; of two calls that differ only in
\* lead_time_days the one with the longer lead time returns strictly more.
C20_ZeroAndStrictlyIncreasing ==
    \A i, j \in DOMAIN ss_calls :
        /\ ss_calls[i].forecast_std = 0 => ss_calls[i].result = 0
        /\ (/\ ss_calls[i].lead_time_days = ss_calls[j].lead_time_days
            /\ ss_calls[i].z_score = ss_calls[j].z_score
            /\ ss_calls[i].forecast_std < ss_calls[j].forecast_std)
              => ss_calls[i].result < ss_calls[j].result
        /\ (/\ ss_calls[i].forecast_std = ss_calls[j].forecast_std
            /\ ss_calls[i].z_score = ss_calls[j].z_score
            /\ ss_calls[i].lead_time_days < ss_calls[j].lead_time_days)
              => ss_calls[i].result < ss_calls[j].result

\* C20, amended: std = 0 returns 0 for every lead time and z-score; for a
\* positive z-score the value is strictly increasing in std when the lead
\* time is positive, and strictly increasing in lead_time_days when std is
\* positive.
C20_IncreasingWherePositive ==
    \A i, j \in DOMAIN ss_calls :
        /\ ss_calls[i].forecast_std = 0 => ss_calls[i].result = 0
        /\ (/\ ss_calls[i].lead_time_days = ss_calls[j].lead_time_days
            /\ ss_calls[i].z_score = ss_calls[j].z_score
            /\ ss_calls[i].forecast_std < ss_calls[j].forecast_std
            /\ ss_calls[i].z_score > 0
            /\ ss_calls[i].lead_time_days > 0)
              => ss_calls[i].result < ss_calls[j].result
        /\ (/\ ss_calls[i].forecast_std = ss_calls[j].forecast_std
            /\ ss_calls[i].z_score = ss_calls[j].z_score
            /\ ss_calls[i].lead_time_days < ss_calls[j].lead_time_days
            /\ ss_calls[i].z_score > 0
            /\ ss_calls[i].forecast_std > 0)
              => ss_calls[i].result < ss_calls[j].result

\* the three calls of test_safety_stock_calculation: (10, 1, 1.65), then
\* (10, 4, 1.65) which returns more, then (0, 1, 1.65) which returns 0
C20_TestCallsSeen ==
    /\ Len(ss_calls) = 3
    /\ ss_calls[1] = [forecast_std |-> 100, lead_time_days |-> 1,
                      z_score |-> 33, result |-> 33 * 100 * 33 * 100]
    /\ ss_calls[2].forecast_std = 100
    /\ ss_calls[2].lead_time_days = 4
    /\ ss_calls[2].z_score = 33
    /\ ss_calls[2].result > ss_calls[1].result
    /\ ss_calls[3].forecast_std = 0
    /\ ss_calls[3].lead_time_days = 1
    /\ ss_calls[3].z_score = 33
    /\ ss_calls[3].result = 0

(***************************************************************************)
(* Properties of generate_prep_recommendations                             *)
(***************************************************************************)
\* a fraction that is a number, and zero
IsZero(f) == f # NaN /\ f[1] = 0

\* C12: for every group whose forecast std is exactly zero or whose average
\* daily demand is exactly zero, the safety stock is 0, the coefficient of
\* variation is 0 and the alert level is green.
C12_ZeroDegradesToGreen ==
    \A k \in DOMAIN recommendations :
        (IsZero(prep_locals[k].raw_var) \/ IsZero(prep_locals[k].avg_demand)) =>
            /\ IsZero(prep_locals[k].safety_sq)
            /\ recommendations[k].safety_stock = 0
            /\ IsZero(prep_locals[k].cv_sq)
            /\ recommendations[k].alert_level = "green"

(***************************************************************************)
(* Properties of a failing item inside predict_multi_day                   *)
(***************************************************************************)
\* the rows of latest whose prediction fails, and the items that have no
\* failing row
FailedRows == {i \in 1..Len(latest) : latest[i].xgb.raises}
HealthyItems == {latest[i].item : i \in 1..Len(latest)}
                    \ {latest[i].item : i \in FailedRows}

\* C13: when the prediction of one item's row fails, predict_multi_day
\* still returns the forecast rows of every item without a failing row.
C13_FailureKeepsOtherItems ==
    (fpc = "done" /\ "balanced" \in fmodels /\ FailedRows # {}) =>
        \A item \in HealthyItems : RowsOfItem(item) # {}

(***************************************************************************)
(* Properties of the tags in a forecast answer                             *)
(***************************************************************************)
\* the tags predict_multi_day writes
ModelSources == {"ensemble_2model", "ensemble_3model"}

\* C14: every successful answer of POST /forecast carries a model_source:
\* it has forecast entries and each of them names the models behind it.
C14_EveryForecastTagged ==
    \A r \in Reqs :
        (rkind[r].endpoint = "forecast" /\ resp[r].status = 200) =>
            /\ resp[r].rows # <<>>
            /\ \A k \in 1..Len(resp[r].rows) :
                  resp[r].rows[k].model_source \in ModelSources

(***************************************************************************)
(* Properties of the context signals                                       *)
(***************************************************************************)
\* the signals of a day on which nothing speaks for either side, with
\* parts of a call's answer put in
Quiet == UnifiedContext(QuietWorld, WeatherError, AirEmpty, NoHoliday, <<>>)
NoReason(sig) == StockoutReasons(sig) = 0 /\ WasteReasons(sig) = 0

\* A call that has returned holds, for every source whose fetch failed, the
\* default of that source (no weather fields, no air quality, no alerts,
\* the library's holidays or none, no long weekend), and the bias takes no
\* reason from it.
FailedFetchGivesDefaults ==
    \A c \in Calls :
        sig_pc[c] = "done" =>
            /\ signals[c].status = "returned"
            /\ signals[c].recommendation_bias = ComputeBias(signals[c].context)
            /\ Failed(net["weather"]) =>
                  /\ signals[c].context.weather = WeatherError
                  /\ NoReason([Quiet EXCEPT !.weather = signals[c].context.weather])
            /\ Failed(net["aqi"]) => signals[c].context.air_quality = AirEmpty
            /\ Failed(net["meteoalarm"]) =>
                  /\ signals[c].context.severe_weather_alerts = <<>>
                  /\ NoReason([Quiet EXCEPT !.severe_weather_alerts =
                                   signals[c].context.severe_weather_alerts])
            /\ (Failed(net["holidays"]) /\ ~lib_installed) =>
                  /\ ~signals[c].context.holidays.is_holiday
                  /\ ~signals[c].context.holidays.is_day_before_holiday
                  /\ ~signals[c].context.holidays.is_day_after_holiday
            /\ (Failed(net["long_weekends"]) \/ net["holidays"] = "raises") =>
                  ~signals[c].context.holidays.long_weekend_approaching
            /\ (net["holidays"] = "raises" /\ ~lib_installed) =>
                  NoReason([Quiet EXCEPT !.holidays = signals[c].context.holidays])

\* a call returns when every request it sends comes to an end
ReturnsWhenRequestsEnd ==
    \A c \in Calls :
        (sig_pc[c] = "weather" /\ \A sv \in Services : Completes(net[sv]))
            ~> (sig_pc[c] = "done")

\* C15: a call whose fetch of an advisory service fails or times out still
\* returns, with the default of that service and with no reason for a bias
\* drawn from it; and every call that has started returns: no fetch waits
\* for ever.
C15_FailedFetchDegrades ==
    /\ []FailedFetchGivesDefaults
    /\ \A c \in Calls : (sig_pc[c] = "weather") ~> (sig_pc[c] = "done")

(***************************************************************************)
(* Properties of concurrent inference                                      *)
(***************************************************************************)
\* no request of the mix trains
OnlyInference == \A t \in Reqs : rkind[t].endpoint # "train"

\* what POST /forecast answers when it is the only request of a server
\* with these model files, this sales history and this joblib file
SoloForecast ==
    IF pklFiles # {} /\ histRows = 0 THEN Answer(404, "No sales data", <<>>)
    ELSE IF ServerForecast(pklFiles) # <<>>
    THEN Answer(200, "forecast", ForecastEntries(ServerForecast(pklFiles)))
    ELSE IF disk = NoVersion THEN Answer(400, "Model not trained", <<>>)
    ELSE IF histRows >= MinHistory THEN Answer(500, "error", <<>>)
    ELSE Answer(200, "forecast", <<>>)

\* a forecast request has the trained models in hand: its handler (entered
\* with the forecaster rfc[r]) is past load_trained_models
ModelsLoaded ==
    \E r \in Reqs :
        /\ rkind[r].endpoint = "forecast"
        /\ rfc[r] # 0
        /\ rpc[r] \in {"predict", "done"}

\* C16: in a mix of inference requests every forecast request gets the
\* answer it would get alone, whatever the interleaving; and once a
\* request has the trained models in hand no step changes the model cache.
C16_InferenceAsIfAlone ==
    /\ [](OnlyInference =>
            \A r \in Reqs :
                (rkind[r].endpoint = "forecast" /\ rpc[r] = "done")
                    => resp[r] = SoloForecast)
    /\ [][ModelsLoaded => models_cache' = models_cache]_vars

\* two forecast requests were both answered from the two trained models:
\* the first loaded them, the second found them in the cache
C16_SharedCacheSeen ==
    /\ pklFiles = {"balanced", "waste_optimized"}
    /\ models_cache = pklFiles
    /\ \A r \in Reqs :
          /\ rkind[r].endpoint = "forecast"
          /\ rpc[r] = "done"
          /\ resp[r].status = 200
          /\ resp[r].rows # <<>>
          /\ resp[r] = SoloForecast

(***************************************************************************)
(* Properties of the model variants' predict and of the features           *)
(***************************************************************************)
\* a fraction that is a number and not below 0
FiniteNonNegative(f) == f # NaN /\ f[1] >= 0 /\ f[2] > 0

\* C17: whatever the fitted regressor returns, every value that the predict
\* of a model variant returns is finite and at least 0.
C17_PredictFiniteNonNegative ==
    /\ \A i \in DOMAIN fe_preds.xgboost : fe_preds.xgboost[i] >= 0
    /\ \A i \in DOMAIN fe_preds.moving_average :
          FiniteNonNegative(fe_preds.moving_average[i])
    /\ \A i \in DOMAIN fe_preds.demand_forecaster :
          /\ fe_preds.demand_forecaster[i].finite
          /\ fe_preds.demand_forecaster[i].v >= 0

\* the two variants that keep the contract, for reference
XGBoostAndBaselineNonNegative ==
    /\ \A i \in DOMAIN fe_preds.xgboost : fe_preds.xgboost[i] >= 0
    /\ \A i \in DOMAIN fe_preds.moving_average :
          FiniteNonNegative(fe_preds.moving_average[i])

\* the sales with other observations on the day of row i and after it
BumpFrom(df, i) ==
    [j \in 1..Len(df) |->
        IF j >= i THEN [df[j] EXCEPT !.quantity_sold = @ + 1000] ELSE df[j]]

\* the lag and rolling fields of a feature row
LagView(row) == [f \in (DOMAIN row) \ {"quantity_sold"} |-> row[f]]

\* the training features of row i do not depend on day i's observation
TrainingNoLookAhead ==
    fe_pc \in {"rolling", "built"} =>
        \A i \in DOMAIN train_df :
            LagView(train_df[i])
                = LagView(add_rolling_features(add_lag_features(BumpFrom(fe_sales, i)))[i])

\* the inference features of row i do not depend on day i's observation
InferenceNoLookAhead ==
    fe_pc = "built" =>
        \A i \in DOMAIN infer_df :
            LagView(infer_df[i])
                = LagView(build_inference_features(BumpFrom(fe_sales, i))[i])

\* C18: every lag and rolling feature of a day, in the training frame and
\* in the inference frame, is the same whatever was observed on that day
\* and after it: only the days before contribute.
C18_OnlyEarlierDays == TrainingNoLookAhead /\ InferenceNoLookAhead

HasDate(df, d) == \E j \in DOMAIN df : df[j].date = d
QtyOn(df, d) == (CHOOSE r \in Range(df) : r.date = d).quantity_sold
FourWeeks == {7, 14, 21, 28}

\* the average of the demand on d-7, d-14, d-21 and d-28
SameWeekdayMean(df, d) ==
    Lowest(<<QtyOn(df, d - 7) + QtyOn(df, d - 14) + QtyOn(df, d - 21) + QtyOn(df, d - 28), 4>>)

SameWeekdayRight(frame) ==
    \A i \in DOMAIN frame :
        (\A k \in FourWeeks : HasDate(fe_sales, frame[i].date - k))
            => frame[i].demand_same_weekday_avg_4weeks
                    = SameWeekdayMean(fe_sales, frame[i].date)

\* the series has a row for every day between its first and its last
NoGap == \A i \in DOMAIN fe_sales : fe_sales[i].date = i

TrainingSameWeekdayRight ==
    (fe_pc \in {"rolling", "built"} /\ NoGap) => SameWeekdayRight(train_df)

\* C19: for a day d whose four earlier same-weekday days d-7, d-14, d-21 and
\* d-28 were observed, demand_same_weekday_avg_4weeks is the average of the
\* demand on those four days, in the training and in the inference frame.
C19_SameWeekdayAverage ==
    /\ fe_pc \in {"rolling", "built"} => SameWeekdayRight(train_df)
    /\ fe_pc = "built" => SameWeekdayRight(infer_df)

(***************************************************************************)
(* Properties of the recommended prep quantity                             *)
(***************************************************************************)
\* q >= f + sqrt(s[1] / s[2]) / 200, for the fraction f and the squared
\* safety stock s in two-hundredths squared
AtLeastSum(q, f, s) ==
    /\ q * f[2] >= f[1]
    /\ (q * f[2] - f[1]) * (q * f[2] - f[1]) * s[2] * 40000 >= s[1] * f[2] * f[2]

\* q is the smallest whole number that is at least forecast_demand + safety
IsCeilOfSum(q, f, s) == AtLeastSum(q, f, s) /\ ~AtLeastSum(q - 1, f, s)

\* C21: the recommended_prep_qty of every group is
\* ceil(forecast_demand + safety_stock), the smallest whole number that is
\* at least the sum of the two, and it is never negative.
C21_PrepQtyIsCeil ==
    \A k \in DOMAIN recommendations :
        LET q == recommendations[k].recommended_prep_qty
            f == prep_locals[k].forecast_demand
            s == prep_locals[k].safety_sq
        IN /\ q >= 0
           /\ s # NaN
           /\ IsCeilOfSum(q, f, s)

\* what the code does keep: with a std that is a number (a group of two or
\* more rows) the quantity is the ceiling of the sum where that is not
\* negative, and 0 where it is
PrepQtyIsClippedCeil ==
    \A k \in DOMAIN recommendations :
        LET q == recommendations[k].recommended_prep_qty
            f == prep_locals[k].forecast_demand
            s == prep_locals[k].safety_sq
        IN s # NaN =>
              /\ q >= 0
              /\ IsCeilOfSum(q, f, s) \/ (q = 0 /\ AtLeastSum(0, f, s))

\* a group of one row: the quantity is 0 whatever the forecast is
PrepQtyOfOneRow ==
    \A k \in DOMAIN recommendations :
        prep_locals[k].safety_sq = NaN =>
            /\ recommendations[k].recommended_prep_qty = 0
            /\ recommendations[k].safety_stock = NotANumber
            /\ recommendations[k].demand_std = NotANumber
            /\ recommendations[k].alert_level = "green"

(***************************************************************************)
(* Properties of the business cost                                         *)
(***************************************************************************)
CostReturned == ev_pc \in {"evaluate_predictions", "oriented_cost", "compare_models"}

\* C22: the total cost is waste_multiplier times the waste cost plus
\* stockout_multiplier times the stockout cost, exactly; the waste cost is 0
\* when no prediction is above its actual, and the stockout cost is 0 when
\* no prediction is below its actual.
C22_TotalIsWeightedSum ==
    CostReturned =>
        /\ ev_out.total_business_cost_dkk
              = ev_mult.waste * ev_out.waste_cost_dkk
                    + ev_mult.stockout * ev_out.stockout_cost_dkk
        /\ (\A i \in DOMAIN ev_df : ev_df[i].predicted <= ev_df[i].actual)
              => ev_out.waste_cost_dkk = 0
        /\ (\A i \in DOMAIN ev_df : ev_df[i].predicted >= ev_df[i].actual)
              => ev_out.stockout_cost_dkk = 0

\* a frame with an under-forecast row and no over-forecast row was costed:
\* the stockout cost is positive and the waste cost is 0
C22_OnlyStockoutSeen ==
    /\ CostReturned
    /\ \A i \in DOMAIN ev_df : ev_df[i].predicted <= ev_df[i].actual
    /\ \E i \in DOMAIN ev_df : ev_df[i].predicted < ev_df[i].actual
    /\ ev_out.waste_cost_dkk = 0
    /\ ev_out.stockout_cost_dkk > 0
    /\ ev_out.total_business_cost_dkk = ev_mult.stockout * ev_out.stockout_cost_dkk

(***************************************************************************)
(* Properties of the cold-start fallback                                   *)
(***************************************************************************)
\* no item matches a keyword of the name or the category: the queries with
\* keywords found nothing, or there is no keyword at all
NoKeywordMatch ==
    IF name_words \/ category
    THEN kw_df = <<>> /\ (category => cat_df = <<>>)
    ELSE TRUE

\* C23: when no item matches a keyword of the name or the category, the
\* route's estimate is the one of the global row and its answer names the
\* global fallback, and the tool names its global fallback.
C23_GlobalFallbackNamed ==
    /\ (cpc = "done" /\ NoKeywordMatch) =>
          /\ cold_response.similarity_method = "global_median"
          /\ estimated_daily = EstimatedDaily(<<global_row>>)
    /\ (cpc = "tool_done" /\ NoKeywordMatch /\ ~category) =>
          tool_result.method = "global_top_products"

\* the same, for a name or category that gives at least one keyword
KeywordsGlobalFallback ==
    /\ (cpc = "done" /\ (name_words \/ category) /\ NoKeywordMatch) =>
          /\ cold_response.similarity_method = "global_median"
          /\ estimated_daily = EstimatedDaily(<<global_row>>)
    /\ (cpc = "tool_done" /\ name_words /\ kw_df = <<>>) =>
          tool_result.method = "global_top_products"

(***************************************************************************)
(* Properties of the DemandForecaster fallback of POST /forecast           *)
(***************************************************************************)
\* C24: a forecast request that finds no balanced model while its
\* DemandForecaster is trained is answered with forecasts, not an error:
\* status 200, with forecast rows when an item has enough history.
C24_TrainedFallbackForecasts ==
    \A r \in Reqs :
        (/\ rkind[r].endpoint = "forecast" /\ rpc[r] = "done" /\ rfc[r] # 0
         /\ "balanced" \notin pklFiles
         /\ obj[rfc[r]].model # NoVersion
         /\ \A t \in Reqs : rkind[t].endpoint # "train")
           => /\ resp[r].status = 200
              /\ histRows >= MinHistory => resp[r].rows # <<>>

(***************************************************************************)
(* C25: the run_sql tool and the /data/query endpoint are read-only: no    *)
(* query that performs a DROP, DELETE, INSERT, UPDATE, ALTER, CREATE or    *)
(* TRUNCATE is ever handed to the database, and such a query gets an       *)
(* error result instead.                                                   *)
(***************************************************************************)
BlockedPrefixNeverExecuted ==
    \A q \in sq_executed : BlockedKeyword(q) = <<>>

C25_ReadOnly ==
    /\ \A q \in sq_executed : ~Destructive(q)
    /\ (sq_pc # "start" /\ Destructive(sq_query))
          => sq_result.status \in {"error", "400", "raised", "500"}

(***************************************************************************)
(* C26: time_series_split returns train, validation and test sets in       *)
(* temporal order: every training row's date is strictly before every      *)
(* validation row's date, under the month-based split and under the        *)
(* ratio-based fallback split.                                             *)
(***************************************************************************)
StrictlyBefore(a, b) ==
    \A i \in 1..Len(a) : \A j \in 1..Len(b) : DateLt(a[i].date, b[j].date)
NeverAfter(a, b) ==
    \A i \in 1..Len(a) : \A j \in 1..Len(b) : DateLe(a[i].date, b[j].date)
OneRowPerDate(df) ==
    \A i, j \in 1..Len(df) : df[i].date = df[j].date => i = j

\* the month windows separate the three sets strictly
MonthSplitOrdered ==
    (ts_pc = "split" /\ ts_out.branch = "months")
        => /\ ts_out.train # <<>> /\ ts_out.val # <<>> /\ ts_out.test # <<>>
           /\ StrictlyBefore(ts_out.train, ts_out.val)
           /\ StrictlyBefore(ts_out.val, ts_out.test)

\* the row ratios never put a later date before an earlier one, and
\* separate the sets strictly when no two rows share a date
RatioSplitOrdered ==
    (ts_pc = "split" /\ ts_out.branch = "ratio")
        => /\ NeverAfter(ts_out.train, ts_out.val)
           /\ NeverAfter(ts_out.val, ts_out.test)
           /\ OneRowPerDate(ts_df) => StrictlyBefore(ts_out.train, ts_out.val)

C26_TrainBeforeValidation ==
    ts_pc = "split" => StrictlyBefore(ts_out.train, ts_out.val)

(***************************************************************************)
(* C27: whenever balanced_model.pkl is present and loadable at the time of *)
(* a forecast request, load_trained_models returns a registry that         *)
(* contains the balanced model, also when an earlier call was made while   *)
(* the file was missing or unreadable; a registry without the balanced     *)
(* model does not stay in the cache.                                       *)
(***************************************************************************)
\* a call that found no loadable file leaves the cache empty, and a call
\* on an empty cache returns every loadable file
EmptyCacheReloads ==
    /\ (reg_pc = "idle" /\ reg_calls > 0 /\ reg_returned = {}) => reg_models = {}
    /\ (reg_pc = "idle" /\ reg_calls > 0 /\ "balanced" \in reg_seen
           /\ "balanced" \notin reg_returned)
          => reg_returned = {"waste_optimized"}
C27_BalancedWhenLoadable ==
    (reg_pc = "idle" /\ reg_calls > 0 /\ "balanced" \in reg_seen)
        => /\ "balanced" \in reg_returned
           /\ "balanced" \in reg_models
           /\ reg_rows = "built"

(***************************************************************************)
(* C28: only successfully fetched context signals are stored in the TTL    *)
(* cache: after a failed or empty fetch for a key the cache has no entry   *)
(* for it, so that the next request for that key fetches again instead of  *)
(* being served the degraded result until the entry is an hour old.        *)
(***************************************************************************)
\* weather, air quality and alerts are stored only when their fetch succeeded
FetchedSignalsCached ==
    \A key \in DOMAIN sig_cache \ {"holidays"} : net[key] = "ok"

\* the requests behind a key: two for the holidays
RequestsOf(key) ==
    IF key = "holidays" THEN {"holidays", "long_weekends"} ELSE {key}

C28_OnlyFetchedCached ==
    \A key \in DOMAIN sig_cache : \A sv \in RequestsOf(key) : net[sv] = "ok"

(***************************************************************************)
(* C29: in the ingredient forecast needs_reorder and reorder_urgency agree *)
(* for every ingredient and every days_ahead >= 1: needs_reorder is true   *)
(* exactly when reorder_urgency is critical, soon or low_stock, and false  *)
(* exactly when it is ok.                                                  *)
(***************************************************************************)
ReorderAgrees ==
    stk_row.needs_reorder <=> stk_row.reorder_urgency \in {"critical", "soon", "low_stock"}

\* the two fields agree for horizons from 2 days up to the 999 days that
\* stand for "nothing consumed"
ReorderAgreesFromTwoDays ==
    (stk_pc = "row" /\ stk_in.days_ahead >= 2 /\ stk_in.days_ahead <= NoDemandDays)
        => ReorderAgrees

C29_ReorderAgreesWithUrgency ==
    (stk_pc = "row" /\ stk_in.days_ahead >= 1)
        => /\ ReorderAgrees
           /\ ~stk_row.needs_reorder <=> stk_row.reorder_urgency = "ok"

(***************************************************************************)
(* C30: chat_with_tools always terminates: it makes at most                *)
(* MAX_TOOL_ROUNDS (5) requests with tools plus at most one retry without  *)
(* tools and then returns a text, even if the model asks for tools in      *)
(* every round.  The call comes to an end, and the end is a returned text, *)
(* never an exception.                                                     *)
(***************************************************************************)
\* the call is at an await that never ends
ChatWaitsForEver ==
    chat_pc \in {"post_endless", "tool_endless", "retry_post_endless"}

BoundedRequests ==
    /\ chat_requests <= MAX_TOOL_ROUNDS
    /\ chat_retries <= 1
    /\ chat_pc = "loop" => chat_requests = chat_round

ReturnsText ==
    chat_pc = "returned"
        => /\ chat_result # ""
           /\ chat_result = ExhaustedText
                 <=> (chat_requests = MAX_TOOL_ROUNDS /\ chat_round = MAX_TOOL_ROUNDS)

\* the requests are bounded and what is returned is a text; the call
\* returns unless a request fails or something awaited never ends
ChatEndsWhenAnswered ==
    /\ <>(chat_pc \in {"returned", "raised"} \/ ChatWaitsForEver)
    /\ [](BoundedRequests /\ ReturnsText)

\* the model asked for tools in all five rounds, and the call returned the
\* text of the exhausted loop
ToolsInEveryRound ==
    (chat_round = MAX_TOOL_ROUNDS /\ chat_pc = "returned")
        => /\ chat_requests = MAX_TOOL_ROUNDS
           /\ chat_messages >= 1 + 2 * MAX_TOOL_ROUNDS
           /\ chat_result = ExhaustedText

C30_ChatTerminates ==
    /\ <>(chat_pc = "returned")
    /\ [](chat_pc # "raised")
    /\ [](BoundedRequests /\ ReturnsText)

====
